---- MODULE Spec2Model ----
(***************************************************************************)
(* Model of the BlindDate match lifecycle.                                 *)
(*                                                                         *)
(* Two layers are modelled.                                                *)
(*  - The mobile client (src/mobile): ApiService, which routes every REST  *)
(*    call either to mockApi or to the backend depending on the build      *)
(*    switch USE_MOCK_API, and mockApi itself.                             *)
(*  - The backend Match State Machine (backend/ of the repository, whose   *)
(*    code is not part of src/): modelled from spec.md sections 3, 4.3     *)
(*    and 4.4.                                                             *)
(*                                                                         *)
(* USE_MOCK_API is "const USE_MOCK_API = true" in api.ts ("Set to true to  *)
(* use mock API (no backend needed)").  Both settings of the switch are    *)
(* explored: it is chosen once, initially, and never changes.  With TRUE,  *)
(* the shipped value, the REST calls of the client never reach the match.  *)
(*                                                                         *)
(* The reveal is re-armed by the CONTINUED -> CHATTING fold: each          *)
(* lifecycle iteration can reveal once (spec.md sections 4.3 and 8).       *)
(*                                                                         *)
(* Scores are fixed-point numbers in thousandths: 0.80 is 800.             *)
(***************************************************************************)
EXTENDS Integers, Sequences, FiniteSets, TLC

\* ---------------------------------------------------------------- bounds
\* Number of operations performed on the match in one behaviour.
MaxCalls == 6

\* Scores pushed by the external scorer (thousandths): just below, at and
\* above the reveal threshold.
Scores == {799, 800, 820}

\* Sockets created by one WebSocketService in one behaviour.
MaxSockets == 3

\* Handler registrations (calls of on) in one behaviour.
MaxHandlers == 2

\* Calls of send in one behaviour.
MaxSends == 2

\* Steps of one mounted BlindChatScreen (events received, messages sent).
MaxChatSteps == 3

\* Message ids the server hands out (msg-1).
MaxMsgIds == 1

\* Events dispatched to one participant in one behaviour.
MaxEvents == 6

\* Capacity of the Event Dispatcher's buffer for one participant.
BufferCapacity == 2

\* getCurrentMatch requests of the poll that may be outstanding at once.
MaxInFlight == 2

\* Times BlindChatScreen is mounted in one behaviour.
MaxMounts == 3

\* Scores given to the meter: 0 .. MaxMeterScore thousandths (0.000 .. 1.000).
MaxMeterScore == 1000

\* Operations issued on one match in one behaviour of the serialization domain.
MaxOps == 3

\* Calls of useUserStore actions in one behaviour.
MaxStoreCalls == 3

\* compatibility_update frames on their way to A's device at one time.
MaxFrames == 1

\* The scorer pushes scores while A's device has mounted no more than
\* MaxScoredScreens screens: up to the first reveal.
MaxScoredScreens == 1

\* Screens mounted on A's device before the navigation.replace of a screen
\* no longer shown stops taking effect.
MaxScreens == 3

\* Storage writes that may complete out of order while the reveal runs.
MaxPendingWrites == 4

\* ------------------------------------------------------------- constants
\* WebSocketService.maxReconnectAttempts
maxReconnectAttempts == 5

\* attemptReconnect: setTimeout(..., 2000 * this.reconnectAttempts), milliseconds
reconnectDelay == 2000

\* config.thresholds.minMatchScore (0.50)
minMatchScore == 500

\* the minimum match score used where the reveal threshold is meant
compatibilityReveal_minMatch == minMatchScore

\* the threshold written as a percentage (80) on the 0..1 score scale
compatibilityReveal_percent == 80 * 1000

\* config.thresholds.compatibilityReveal (0.80)
compatibilityReveal == 800

\* mockApi.findMatch: initial_compatibility / current_compatibility (0.58)
initial_compatibility == 580

Participants == {"A", "B"}

Other(p) == IF p = "A" THEN "B" ELSE "A"

MatchStatus == {"chatting", "revealed", "continued", "ended"}

Decision == {"continue", "pass"}

NoDecisions == [p \in Participants |-> "none"]

NoEvents == [p \in Participants |-> <<>>]

VARIABLES
    USE_MOCK_API,   \* build switch of api.ts: TRUE routes REST calls to mockApi
    match,          \* the backend Match: status, currentScore, revealedAt, decisions, nextSequence
    emitted,        \* events handed to the Event Dispatcher by the last operation, per target participant
    revealCount,    \* reveal events emitted to each participant in the current lifecycle iteration
    revealedWrites, \* number of times revealedAt has been set, over the whole life of the match
    iteration,      \* lifecycle iteration: incremented by the CONTINUED -> CHATTING fold
    assigned,       \* sequence numbers assigned by postMessage, in order of assignment
    submitted,      \* decision each participant sent through ApiService in the current reveal instance
    lastCall,       \* the last operation: name, caller, argument and the response it returned
    nCalls          \* number of operations so far; also the clock that stamps revealedAt

vars == <<USE_MOCK_API, match, emitted, revealCount, revealedWrites, iteration,
          assigned, submitted, lastCall, nCalls>>

VARIABLES
    ws,             \* the WebSocketService singleton wsService and the sockets it has created
    wsLog           \* what the last step of the service did, and what has been asked of it so far

wsVars == <<ws, wsLog>>

VARIABLES
    chat,           \* state of the mounted BlindChatScreen: messages, sending
    chatLog         \* the last step of the screen and the number of steps so far

chatVars == <<chat, chatLog>>

VARIABLES
    dispatcher      \* Event Dispatcher's view of one participant of a match

dispVars == <<dispatcher>>

VARIABLES
    reveal          \* state of participant A's ProfileRevealScreen and its poll

revealVars == <<reveal>>

VARIABLES
    screens         \* BlindChatScreen instances: the mounted one, and how many there were

screenVars == <<screens>>

VARIABLES
    meter           \* what CompatibilityMeter renders for the score it was given

meterVars == <<meter>>

VARIABLES
    store           \* useUserStore: the in-memory state, persistent storage, writes under way

storeVars == <<store>>

VARIABLES
    serial          \* one match's serialization domain: operations received, being applied, answered

serialVars == <<serial>>

clientVars ==
    <<wsVars, chatVars, dispVars, revealVars, screenVars, meterVars, storeVars, serialVars>>

allVars == <<vars, clientVars>>

\* ------------------------------------------------ Match State Machine 4.3
\* Event constructors (wire envelope, spec section 6).
CompatibilityUpdate(score, reveal_triggered) ==
    [type |-> "compatibility_update", score |-> score,
     reveal_triggered |-> reveal_triggered, sequence |-> -1, status |-> "none"]

Reveal ==
    [type |-> "reveal", score |-> -1, reveal_triggered |-> FALSE,
     sequence |-> -1, status |-> "none"]

MessageEvent(sequence) ==
    [type |-> "message", score |-> -1, reveal_triggered |-> FALSE,
     sequence |-> sequence, status |-> "none"]

Terminal(status) ==
    [type |-> "terminal", score |-> -1, reveal_triggered |-> FALSE,
     sequence |-> -1, status |-> status]

ToBoth(evs) == [p \in Participants |-> evs]

ToOther(sender, evs) == [p \in Participants |-> IF p = sender THEN <<>> ELSE evs]

\* Response of an operation: error is "none" on success.
Response(error, waiting, status, sequence) ==
    [error |-> error, your_decision |-> "none", profile |-> FALSE,
     waiting_for_partner |-> waiting,
     match_status |-> status, sequence |-> sequence]

\* fold that keeps the timestamp of the finished encounter
fold_keepRevealedAt(m) ==
    IF m.status = "continued"
    THEN [m EXCEPT !.status = "chatting", !.decisions = NoDecisions]
    ELSE m

\* fold that also reopens an ENDED match
fold_reopenEnded(m) ==
    IF m.status \in {"continued", "ended"}
    THEN [m EXCEPT !.status = "chatting", !.decisions = NoDecisions, !.revealedAt = {}]
    ELSE m

\* CONTINUED folds back into CHATTING: decisions reset, revealedAt cleared.
fold(m) ==
    IF m.status = "continued"
    THEN [m EXCEPT !.status = "chatting", !.decisions = NoDecisions, !.revealedAt = {}]
    ELSE m

\* ingestScore that keeps updating currentScore after the match has left CHATTING
ingestScore_anyStatus(m, newScore, now) ==
    IF m.status = "chatting" /\ newScore >= compatibilityReveal
    THEN [match |-> [m EXCEPT !.currentScore = newScore, !.status = "revealed",
                              !.revealedAt = {now}],
          events |-> ToBoth(<<CompatibilityUpdate(newScore, TRUE), Reveal>>),
          response |-> Response("none", FALSE, "revealed", -1)]
    ELSE [match |-> [m EXCEPT !.currentScore = newScore],
          events |-> ToBoth(<<CompatibilityUpdate(newScore, FALSE)>>),
          response |-> Response("none", FALSE, m.status, -1)]

\* ingestScore(newScore): accepted only while CHATTING; silent no-op otherwise.
ingestScore(m, newScore, now) ==
    IF m.status # "chatting"
    THEN [match |-> m, events |-> NoEvents, response |-> Response("none", FALSE, m.status, -1)]
    ELSE IF newScore >= compatibilityReveal
    THEN [match |-> [m EXCEPT !.currentScore = newScore, !.status = "revealed",
                              !.revealedAt = {now}],
          events |-> ToBoth(<<CompatibilityUpdate(newScore, TRUE), Reveal>>),
          response |-> Response("none", FALSE, "revealed", -1)]
    ELSE [match |-> [m EXCEPT !.currentScore = newScore],
          events |-> ToBoth(<<CompatibilityUpdate(newScore, FALSE)>>),
          response |-> Response("none", FALSE, "chatting", -1)]

\* postMessage that is accepted in CHATTING and REVEALED only and never folds
postMessage_rejectContinued(m, senderId) ==
    IF m.status \in {"chatting", "revealed"}
    THEN [match |-> [m EXCEPT !.nextSequence = m.nextSequence + 1],
          events |-> ToOther(senderId, <<MessageEvent(m.nextSequence)>>),
          response |-> Response("none", FALSE, m.status, m.nextSequence)]
    ELSE [match |-> m, events |-> NoEvents,
          response |-> Response("InvalidStateError", FALSE, m.status, -1)]

\* postMessage that restarts the counter when the match folds back to CHATTING
postMessage_restartOnFold(m, senderId) ==
    LET f == fold(m)
        seq == IF m.status = "continued" THEN 0 ELSE f.nextSequence IN
    IF f.status \in {"chatting", "revealed"}
    THEN [match |-> [f EXCEPT !.nextSequence = seq + 1],
          events |-> ToOther(senderId, <<MessageEvent(seq)>>),
          response |-> Response("none", FALSE, f.status, seq)]
    ELSE [match |-> m, events |-> NoEvents,
          response |-> Response("InvalidStateError", FALSE, m.status, -1)]

\* postMessage(senderId, content): sequence = nextSequence++.  A CONTINUED
\* match folds back into CHATTING on this chat interaction.
postMessage(m, senderId) ==
    LET f == fold(m) IN
    IF f.status \in {"chatting", "revealed"}
    THEN [match |-> [f EXCEPT !.nextSequence = f.nextSequence + 1],
          events |-> ToOther(senderId, <<MessageEvent(f.nextSequence)>>),
          response |-> Response("none", FALSE, f.status, f.nextSequence)]
    ELSE [match |-> m, events |-> NoEvents,
          response |-> Response("InvalidStateError", FALSE, m.status, -1)]

\* Decision Reconciliation Coordinator (4.4): finalization.
finalize(m, status) ==
    [match |-> [m EXCEPT !.status = status],
     events |-> ToBoth(<<Terminal(status)>>),
     response |-> Response("none", FALSE, status, -1)]

\* submitDecision(participantId, decision), spec 4.4 steps 1 to 4.
submitDecision(m, participantId, decision) ==
    IF m.status # "revealed"
    THEN [match |-> m, events |-> NoEvents,
          response |-> Response("InvalidStateError", FALSE, m.status, -1)]
    ELSE IF m.decisions[participantId] # "none"
    THEN [match |-> m, events |-> NoEvents,
          response |-> Response("DuplicateDecisionError", FALSE, m.status, -1)]
    ELSE LET r == [m EXCEPT !.decisions[participantId] = decision] IN
         IF decision = "pass" THEN finalize(r, "ended")
         ELSE IF r.decisions[Other(participantId)] = "continue" THEN finalize(r, "continued")
         ELSE IF r.decisions[Other(participantId)] = "pass" THEN finalize(r, "ended")
         ELSE [match |-> r, events |-> NoEvents,
               response |-> Response("none", TRUE, "revealed", -1)]

\* getRevealedProfile(matchId): the profile payload, valid once status # CHATTING.
getRevealedProfile(m) ==
    IF m.status = "chatting"
    THEN [match |-> m, events |-> NoEvents,
          response |-> Response("InvalidStateError", FALSE, m.status, -1)]
    ELSE [match |-> m, events |-> NoEvents,
          response |-> [Response("none", FALSE, m.status, -1) EXCEPT !.profile = TRUE]]

\* ---------------------------------------------------------------- mockApi
\* mockApi.getRevealedProfile: the profile of "Alex", whatever the match.
mockApi_getRevealedProfile(m) ==
    [match |-> m, events |-> NoEvents,
     response |-> [Response("none", FALSE, "none", -1) EXCEPT !.profile = TRUE]]

\* mockApi.submitDecision: the same answer for every decision.
mockApi_submitDecision(m, decision) ==
    [match |-> m, events |-> NoEvents,
     response |-> [Response("none", TRUE, "revealed", -1) EXCEPT !.your_decision = decision]]

\* mockApi.sendMessage: returns a message built on the client; nothing reaches the match.
mockApi_sendMessage(m) ==
    [match |-> m, events |-> NoEvents,
     response |-> Response("none", FALSE, "none", -1)]

\* ------------------------------------------------------------- ApiService
api_submitDecision(m, p, decision) ==
    IF USE_MOCK_API THEN mockApi_submitDecision(m, decision)
    ELSE submitDecision(m, p, decision)

api_getRevealedProfile(m) ==
    IF USE_MOCK_API THEN mockApi_getRevealedProfile(m)
    ELSE getRevealedProfile(m)

api_sendMessage(m, p) ==
    IF USE_MOCK_API THEN mockApi_sendMessage(m)
    ELSE postMessage(m, p)

\* ------------------------------------------------------- WebSocketService
Matches == {"m1", "m2"}

\* WSMessageType
WSMessageType == {"message", "typing", "compatibility_update", "reveal"}

\* BlindChatScreen.setupWebSocket: the handler registered for each type.
Registrations ==
    {<<"message", "handleNewMessage">>,
     <<"compatibility_update", "handleCompatibilityUpdate">>}

\* Inbound frames (event.data): text that is not JSON, the JSON value null,
\* a JSON object without type, an object whose type no handler list exists
\* for, and envelopes of the four message types.
MalformedFrames == {"not json", "null", "{}", "{type:'ping'}"}

Frames == MalformedFrames \cup WSMessageType

\* JSON.parse(event.data) followed by message.type: the exception raised, or
\* the type read.
ParsedType(frame) ==
    CASE frame = "not json" -> [throws |-> "SyntaxError", type |-> "none"]
      [] frame = "null" -> [throws |-> "TypeError", type |-> "none"]
      [] frame = "{}" -> [throws |-> "none", type |-> "undefined"]
      [] frame = "{type:'ping'}" -> [throws |-> "none", type |-> "ping"]
      [] OTHER -> [throws |-> "none", type |-> frame]

\* The service as constructed: socket null (0), no handlers, matchId null.
NewWebSocketService ==
    [socket |-> 0,
     sockets |-> <<>>,
     handlers |-> [t \in WSMessageType |-> <<>>],
     reconnectAttempts |-> 0,
     matchId |-> "null",
     timers |-> <<>>,
     wire |-> <<>>]

NewWsLog ==
    [frame |-> "none", invoked |-> <<>>, escaped |-> FALSE,
     manual |-> FALSE, sendCalls |-> <<>>, malformed |-> FALSE]

\* WebSocket.close(): an OPEN or CONNECTING socket starts closing; its close
\* event is delivered later.
Close(sockets, i) ==
    IF sockets[i].readyState \in {"CONNECTING", "OPEN"}
    THEN [sockets EXCEPT ![i].readyState = "CLOSING"]
    ELSE sockets

\* disconnect that leaves matchId as it is
disconnect_keepMatchId(w) ==
    IF w.socket # 0
    THEN [w EXCEPT !.sockets = Close(w.sockets, w.socket), !.socket = 0]
    ELSE w

\* WebSocketService.disconnect
disconnect(w) ==
    IF w.socket # 0
    THEN [w EXCEPT !.sockets = Close(w.sockets, w.socket), !.socket = 0, !.matchId = "null"]
    ELSE [w EXCEPT !.matchId = "null"]

\* connect that records matchId after the old socket has been dropped
connect_matchIdAfterDisconnect(w, matchId) ==
    IF w.socket # 0 /\ w.sockets[w.socket].readyState = "OPEN" /\ w.matchId = matchId
    THEN w
    ELSE LET w2 == disconnect(w) IN
         [w2 EXCEPT !.matchId = matchId,
                    !.sockets = Append(w2.sockets,
                                       [matchId |-> matchId, readyState |-> "CONNECTING"]),
                    !.socket = Len(w2.sockets) + 1]

\* WebSocketService.connect
connect(w, matchId) ==
    IF w.socket # 0 /\ w.sockets[w.socket].readyState = "OPEN" /\ w.matchId = matchId
    THEN w
    ELSE LET w1 == [w EXCEPT !.matchId = matchId]
             w2 == disconnect(w1) IN
         [w2 EXCEPT !.sockets = Append(w2.sockets,
                                       [matchId |-> matchId, readyState |-> "CONNECTING"]),
                    !.socket = Len(w2.sockets) + 1]

\* WebSocketService.attemptReconnect
attemptReconnect(w) ==
    IF w.reconnectAttempts < maxReconnectAttempts /\ w.matchId # "null"
    THEN [w EXCEPT !.reconnectAttempts = w.reconnectAttempts + 1,
                   !.timers = Append(w.timers, reconnectDelay * (w.reconnectAttempts + 1))]
    ELSE w

\* The callback given to setTimeout by attemptReconnect; timer k has fired.
reconnectTimer(w, k) ==
    LET w1 == [w EXCEPT !.timers = [i \in 1..(Len(w.timers) - 1) |->
                                      IF i < k THEN w.timers[i] ELSE w.timers[i + 1]]] IN
    IF w1.matchId # "null" THEN connect(w1, w1.matchId) ELSE w1

\* socket.onopen of socket i
onopen(w, i) ==
    [w EXCEPT !.sockets[i].readyState = "OPEN", !.reconnectAttempts = 0]

\* socket.onclose of socket i
onclose(w, i) ==
    attemptReconnect([w EXCEPT !.sockets[i].readyState = "CLOSED"])

\* WebSocketService.on
on(w, type, handler) ==
    [w EXCEPT !.handlers[type] = Append(w.handlers[type], handler)]

\* handlers.indexOf(handler): 0 when absent
IndexOf(handlers, handler) ==
    IF \E i \in 1..Len(handlers) : handlers[i] = handler
    THEN CHOOSE i \in 1..Len(handlers) :
            /\ handlers[i] = handler
            /\ \A j \in 1..(i - 1) : handlers[j] # handler
    ELSE 0

\* WebSocketService.off
off(w, type, handler) ==
    LET hs == w.handlers[type]
        index == IndexOf(hs, handler) IN
    IF index > 0
    THEN [w EXCEPT !.handlers[type] = [i \in 1..(Len(hs) - 1) |->
                                         IF i < index THEN hs[i] ELSE hs[i + 1]]]
    ELSE w

\* WebSocketService.emit: the handlers invoked, in order
emit(w, type) ==
    IF type \in WSMessageType THEN w.handlers[type] ELSE <<>>

\* socket.onmessage without the try/catch around JSON.parse and emit
onmessage_noCatch(w, frame) ==
    LET parsed == ParsedType(frame) IN
    IF parsed.throws # "none"
    THEN [invoked |-> <<>>, escaped |-> TRUE]
    ELSE [invoked |-> emit(w, parsed.type), escaped |-> FALSE]

\* socket.onmessage: the handlers invoked and whether an exception left the callback
onmessage(w, frame) ==
    LET parsed == ParsedType(frame) IN
    IF parsed.throws # "none"
    THEN [invoked |-> <<>>, escaped |-> FALSE]
    ELSE [invoked |-> emit(w, parsed.type), escaped |-> FALSE]

\* WebSocketService.send: event is written to the socket only if it is OPEN
send(w, event) ==
    IF w.socket # 0 /\ w.sockets[w.socket].readyState = "OPEN"
    THEN [w EXCEPT !.wire = Append(w.wire, event)]
    ELSE w

\* ------------------------------------------------------------- identities
\* mockApi.verifyOTP: user_id, which AuthScreen passes to setAuth; the sender_id
\* of the participant's messages
user_id == "user-mock-id"

\* mockApi.getChat: the sender of the partner's messages
partnerId == "other-user"

Users == {user_id, partnerId}

\* ----------------------------------------------------- CompatibilityMeter
\* Scores s (thousandths) for which the double product (s / 1000) * 100 lies
\* just below the half, e.g. 0.145 * 100 = 14.499999999999998.
ProductBelowHalf == {145, 285, 565, 575}

\* Math.round(score * 100)
percentage(s) ==
    IF s \in ProductBelowHalf THEN (s + 5) \div 10 - 1 ELSE (s + 5) \div 10

\* CompatibilityMeter.getColor
getColor(s) ==
    IF percentage(s) >= 80 THEN "#10B981"
    ELSE IF percentage(s) >= 60 THEN "#8B5CF6"
    ELSE IF percentage(s) >= 40 THEN "#F59E0B"
    ELSE "#6B7280"

\* CompatibilityMeter.getLabel
getLabel(s) ==
    IF percentage(s) >= 80 THEN "Ready to reveal!"
    ELSE IF percentage(s) >= 60 THEN "Great connection"
    ELSE IF percentage(s) >= 40 THEN "Getting warmer"
    ELSE "Keep chatting"

\* CompatibilityMeter({ score }): the rendering for one score
CompatibilityMeter(s) ==
    [score |-> s, percentage |-> percentage(s), color |-> getColor(s), label |-> getLabel(s)]

\* ------------------------------------------------------------- useUserStore
\* The keys of the store, in the order setAuth writes and logout deletes them.
StoreKeys == <<"token", "userId", "status", "currentMatchId">>

\* UserStatus
UserStatus == {"onboarding", "active", "paused", "in_chat"}

AllNull == [k \in {"token", "userId", "status", "currentMatchId"} |-> "null"]

\* A storage call that has been started: op is "setItem", "deleteItem" or
\* "getItem"; owner is the number of the async action awaiting it, 0 when
\* nobody awaits it.
StorageOp(op, key, value, owner) == [op |-> op, key |-> key, value |-> value, owner |-> owner]

\* An async store action that is awaiting a storage call: kind is "setAuth",
\* "logout" or "loadFromStorage", pc the number of the call awaited, status
\* the argument of setAuth, read what loadFromStorage has got so far.
Activation(id, kind, status) ==
    [id |-> id, kind |-> kind, pc |-> 1, status |-> status, read |-> AllNull]

\* The store as created, over empty storage: the state (mem), persistent
\* storage (disk), the storage calls under way, the async actions running.
\* calls counts the actions called; duringLogout: another action ran or was
\* called while logout was running; loggedOut: logout has resolved, no
\* other action ran meanwhile and none was called since.
NewUserStore ==
    [mem |-> AllNull, disk |-> AllNull, pending |-> <<>>, running |-> {},
     calls |-> 0, duringLogout |-> FALSE, loggedOut |-> FALSE]

RemoveAt(q, i) == [j \in 1..(Len(q) - 1) |-> IF j < i THEN q[j] ELSE q[j + 1]]

\* useUserStore.setStatus: storage.setItem is started, not awaited
setStatus(st, status) ==
    [st EXCEPT !.pending = Append(st.pending, StorageOp("setItem", "status", status, 0)),
               !.mem["status"] = status]

\* useUserStore.setCurrentMatch: setItem or deleteItem is started, not awaited
setCurrentMatch(st, matchId) ==
    [st EXCEPT !.pending = Append(st.pending,
                                  IF matchId # "null"
                                  THEN StorageOp("setItem", "currentMatchId", matchId, 0)
                                  ELSE StorageOp("deleteItem", "currentMatchId", "null", 0)),
               !.mem["currentMatchId"] = matchId]

\* useUserStore.setAuth, called as action number id, up to its first await
setAuth_start(st, id, status) ==
    [st EXCEPT !.pending = Append(st.pending, StorageOp("setItem", "token", "token", id)),
               !.running = st.running \cup {Activation(id, "setAuth", status)}]

\* useUserStore.logout, called as action number id, up to its first await
logout_start(st, id) ==
    [st EXCEPT !.pending = Append(st.pending, StorageOp("deleteItem", "token", "null", id)),
               !.running = st.running \cup {Activation(id, "logout", "null")},
               !.duringLogout = st.running # {}]

\* useUserStore.loadFromStorage, called as action number id, up to its first
\* await
loadFromStorage_start(st, id) ==
    [st EXCEPT !.pending = Append(st.pending, StorageOp("getItem", "token", "null", id)),
               !.running = st.running \cup {Activation(id, "loadFromStorage", "null")}]

\* The async action a goes on to its next await, of the storage call op.
NextAwait(st, a, op) ==
    [st EXCEPT !.pending = Append(st.pending, op),
               !.running = (st.running \ {a}) \cup {[a EXCEPT !.pc = a.pc + 1]}]

\* setAuth resumes after its awaited storage call: the next setItem, or set({...})
setAuth_resume(st, a) ==
    IF a.pc = 1 THEN NextAwait(st, a, StorageOp("setItem", "userId", user_id, a.id))
    ELSE IF a.pc = 2 THEN NextAwait(st, a, StorageOp("setItem", "status", a.status, a.id))
    ELSE [st EXCEPT !.mem["token"] = "token", !.mem["userId"] = user_id,
                    !.mem["status"] = a.status, !.running = st.running \ {a}]

\* logout resumes after its awaited storage call: the next deleteItem, or set({...})
logout_resume(st, a) ==
    IF a.pc < Len(StoreKeys)
    THEN NextAwait(st, a, StorageOp("deleteItem", StoreKeys[a.pc + 1], "null", a.id))
    ELSE [st EXCEPT !.mem = AllNull, !.running = st.running \ {a},
                    !.loggedOut = ~st.duringLogout /\ st.running = {a}]

\* loadFromStorage resumes after its awaited getItem, which returned value:
\* the next getItem, or set({...}) with the four values read.
loadFromStorage_resume(st, a, value) ==
    LET read == [a.read EXCEPT ![StoreKeys[a.pc]] = value]
        a1 == [a EXCEPT !.read = read] IN
    IF a.pc < Len(StoreKeys)
    THEN [NextAwait(st, a, StorageOp("getItem", StoreKeys[a.pc + 1], "null", a.id))
             EXCEPT !.running = (st.running \ {a}) \cup {[a1 EXCEPT !.pc = a.pc + 1]}]
    ELSE [st EXCEPT !.mem = read, !.running = st.running \ {a}]

\* The storage call at position i completes, or throws (~ok) and leaves
\* storage as it was. The action awaiting it resumes; when the call threw,
\* setAuth and logout reject and loadFromStorage goes to its catch: none of
\* them calls set. Nothing awaits the calls of setStatus and
\* setCurrentMatch (owner 0).
storageComplete(st, i, ok) ==
    LET op == st.pending[i]
        st1 == [st EXCEPT !.disk[op.key] = IF op.op = "getItem" \/ ~ok
                                           THEN st.disk[op.key] ELSE op.value,
                          !.pending = RemoveAt(st.pending, i)] IN
    IF op.owner = 0 THEN st1
    ELSE LET a == CHOOSE x \in st.running : x.id = op.owner IN
         IF ~ok THEN [st1 EXCEPT !.running = st1.running \ {a}]
         ELSE IF a.kind = "logout" THEN logout_resume(st1, a)
         ELSE IF a.kind = "setAuth" THEN setAuth_resume(st1, a)
         ELSE loadFromStorage_resume(st1, a, st.disk[op.key])

\* ---------------------------------------------------- ProfileRevealScreen
\* No match summary: { error }, or no answer yet.
NoSummary == [data |-> FALSE, id |-> "null", status |-> "none"]

\* The backend's getCurrentMatch handler: the summary of the participant's
\* current match, whose id is id.
getCurrentMatch(m, id) == [data |-> TRUE, id |-> id, status |-> m.status]

\* mockApi.getCurrentMatch: { error: "No active match" }.
mockApi_getCurrentMatch == NoSummary

\* ApiService.getCurrentMatch: the mock's answer, or the summary the backend
\* read when it handled the request (answer), or { error } when the request
\* or its answer was lost or the backend answered not-found (~ok).
api_getCurrentMatch(answer, ok) ==
    IF USE_MOCK_API THEN mockApi_getCurrentMatch
    ELSE IF ok THEN answer
    ELSE NoSummary

\* A getCurrentMatch request made by the k-th screen of its kind (an
\* interval's callback of a ProfileRevealScreen, checkExistingMatch of a
\* WaitingScreen), on its way to the backend.
CurrentMatchRequest(k) == [screen |-> k, taken |-> FALSE, answer |-> NoSummary]

\* No answer: the request or its answer was lost.
NetworkError == Response("Network error", FALSE, "none", -1)

\* The submitDecision request of the k-th ProfileRevealScreen, on its way to
\* the backend.
SubmitRequest(k, decision) ==
    [screen |-> k, decision |-> decision, taken |-> FALSE, answer |-> NetworkError]

\* ApiService.submitDecision as the caller sees it: the mock's answer, or
\* the answer the backend gave when it handled the request, or { error }
\* when the request or its answer was lost (~ok).
submitDecision_answer(m, req, ok) ==
    IF USE_MOCK_API THEN mockApi_submitDecision(m, req.decision).response
    ELSE IF ok /\ req.taken THEN req.answer
    ELSE NetworkError

\* ProfileRevealScreen.loadProfile's request as the caller sees it: the
\* mock's profile, or the data the backend answered when it handled the
\* request (data), or none when it refused or the answer was lost (~ok).
loadProfile_data(m, data, ok) ==
    IF USE_MOCK_API THEN mockApi_getRevealedProfile(m).response.profile
    ELSE ok /\ data

\* The findMatch request of the k-th WaitingScreen, on its way to the
\* backend; match tells whether the answer carries a match, id is its id.
FindRequest(k) == [screen |-> k, taken |-> FALSE, match |-> FALSE, id |-> "null"]

\* A match as created: CHATTING at the initial score, nobody has decided.
NewMatch ==
    [status |-> "chatting", currentScore |-> initial_compatibility,
     revealedAt |-> {}, decisions |-> NoDecisions, nextSequence |-> 0]

\* The backend's findMatch handler: with a candidate (found) the participant
\* whose match has ENDED is paired in a new match, CHATTING at the initial
\* score, which becomes the current one; otherwise { message }.
findMatch(m, found) ==
    IF found /\ m.status = "ended"
    THEN [match |-> NewMatch, answer |-> [match |-> TRUE, id |-> "m2"]]
    ELSE [match |-> m, answer |-> [match |-> FALSE, id |-> "null"]]

\* mockApi.findMatch: always the match "match-mock-id" (the second id of the
\* model), CHATTING at 0.58.
mockApi_findMatch == [match |-> TRUE, id |-> "m2"]

\* ApiService.findMatch: the mock's answer, or what the backend answered
\* when it handled the request; no match when it answered { message }, or
\* { error } when the request or its answer was lost (~ok). The caller
\* handles both by setSearching(false) and setError.
api_findMatch(req, ok) ==
    IF USE_MOCK_API THEN mockApi_findMatch
    ELSE IF ok THEN [match |-> req.match, id |-> req.id]
    ELSE [match |-> FALSE, id |-> "null"]

\* A message as the screen keeps it; temporary ids (temp-...) are negative.
Msg(id, sender_id, is_mine) == [id |-> id, sender_id |-> sender_id, is_mine |-> is_mine]

\* What the backend's getChat handler read: the stored messages and the match.
Snapshot(messages, m) ==
    [messages |-> messages, status |-> m.status, current_compatibility |-> m.currentScore]

\* No request has reached the backend yet.
NoSnapshot == [messages |-> <<>>, status |-> "none", current_compatibility |-> 0]

\* The getChat request of loadChat, issued by the k-th BlindChatScreen, on
\* its way to the backend.
Load(k) == [screen |-> k, taken |-> FALSE, snapshot |-> NoSnapshot]

\* The first BlindChatScreen as mounted: useState initial values (loading
\* is true), with loadChat's request on its way (loads). server is the
\* partner's messages stored by the backend, duringLoad the ids of the
\* partner's message events delivered while loading.
NewBlindChatScreen ==
    [messages |-> <<>>, sending |-> FALSE, temp |-> 0, loading |-> TRUE,
     duringLoad |-> {}, server |-> <<>>, loads |-> <<Load(1)>>]

\* The device of participant A. Navigation: the screen shown, the number of
\* BlindChatScreens, of ProfileRevealScreens and of WaitingScreens mounted
\* so far (the screen shown is the last of its kind; each BlindChatScreen
\* registered its handlers and none is ever removed). The
\* ProfileRevealScreen's state (loading, profile, revealing, decision,
\* submitting, waitingForPartner) and its loadProfile request (profileTaken,
\* profileData: handled by the backend, and with what data); the
\* WaitingScreen's state (searching) and the requests of WaitingScreens
\* (checks of checkExistingMatch, finds of findMatch). matchId: the id of
\* A's current match at the backend.
\* What is under way, each named by the screen that started it: the requests
\* of submitDecision, the intervals of pollForResult and their requests, the
\* timeouts of handleCompatibilityUpdate, the frames sent to a chat screen's
\* socket. learned, pushed: what handleResult was told of this encounter and
\* whether its terminal event was sent; results: the runs of handleResult
\* for each ProfileRevealScreen.
NewReveal ==
    [screen |-> "BlindChat", chatScreens |-> 1, revealScreens |-> 0,
     waitingScreens |-> 0, matchId |-> "m1",
     loading |-> TRUE, profile |-> FALSE, revealing |-> TRUE,
     profileTaken |-> FALSE, profileData |-> FALSE,
     decision |-> "none", submitting |-> FALSE, waitingForPartner |-> FALSE,
     searching |-> FALSE, checks |-> <<>>, finds |-> <<>>,
     submits |-> <<>>, intervals |-> {}, polls |-> <<>>, timeouts |-> <<>>,
     frames |-> <<>>, learned |-> "none", pushed |-> FALSE, results |-> <<>>]

\* The k-th screen of its kind is the screen shown.
Shown(v, kind, k) ==
    /\ v.screen = kind
    /\ k = CASE kind = "BlindChat" -> v.chatScreens
             [] kind = "ProfileReveal" -> v.revealScreens
             [] OTHER -> v.waitingScreens

\* ProfileRevealScreen mounts: useState initial values, loadProfile's
\* request on its way; handleResult has not run for this screen. What the
\* earlier screens started stays under way (the answer to an earlier
\* screen's loadProfile sets the state of an unmounted screen: nothing).
mountProfileReveal(v) ==
    [v EXCEPT !.screen = "ProfileReveal", !.revealScreens = v.revealScreens + 1,
              !.loading = TRUE, !.profile = FALSE, !.revealing = TRUE,
              !.profileTaken = FALSE, !.profileData = FALSE,
              !.decision = "none", !.submitting = FALSE,
              !.waitingForPartner = FALSE, !.results = Append(v.results, 0)]

\* WaitingScreen mounts: useState initial values (searching false); its
\* effect calls checkExistingMatch, whose getCurrentMatch request is on its
\* way.
mountWaiting(v) ==
    [v EXCEPT !.screen = "Waiting", !.waitingScreens = v.waitingScreens + 1,
              !.searching = FALSE,
              !.checks = Append(v.checks, CurrentMatchRequest(v.waitingScreens + 1))]

\* A new encounter begins at the backend: nothing of its outcome has been
\* pushed to A's device or learned by it yet.
newEncounter(v) == [v EXCEPT !.learned = "none", !.pushed = FALSE]

\* A BlindChatScreen mounts on the device d: useState initial values
\* (messages [], loading true, compatibility 0); its effect calls loadChat
\* and setupWebSocket, which registers one more pair of handlers.
mountBlindChat(d) ==
    [d EXCEPT !.v.screen = "BlindChat", !.v.chatScreens = d.v.chatScreens + 1,
              !.c = [NewBlindChatScreen EXCEPT
                        !.server = d.c.server,
                        !.loads = Append(d.c.loads, Load(d.v.chatScreens + 1))],
              !.meter = CompatibilityMeter(0)]

\* The 1, 2, ..., n of the chat screens whose handlers are registered.
UpTo(n) == [k \in 1..n |-> k]

\* BlindChatScreen.handleCompatibilityUpdate on the device d (v: navigation
\* and screen state, meter: what <CompatibilityMeter score={compatibility} />
\* shows), as emit runs it for every registered handler: the mounted screen's
\* setCompatibility takes effect, and each handler that sees reveal_triggered
\* sets a timeout.
handleCompatibilityUpdate(d, msg) ==
    [d EXCEPT !.meter = CompatibilityMeter(msg.score),
              !.v.timeouts = IF msg.reveal_triggered
                             THEN d.v.timeouts \o UpTo(d.v.chatScreens)
                             ELSE d.v.timeouts]

\* ProfileRevealScreen.handleResult of the k-th ProfileRevealScreen on the
\* device d (v: navigation and screen state, st: the user store). replaced
\* tells whether navigation.replace took effect.
handleResult(d, status, k, replaced) ==
    LET d1 == [d EXCEPT !.v.learned = status, !.v.results[k] = d.v.results[k] + 1] IN
    IF status = "continued"
    THEN IF replaced THEN mountBlindChat(d1) ELSE d1
    ELSE [d1 EXCEPT !.v = IF replaced THEN mountWaiting(d1.v) ELSE d1.v,
                    !.st = setCurrentMatch(setStatus(d.st, "active"), "null")]

\* ProfileRevealScreen.submitDecision of the k-th ProfileRevealScreen after
\* the await: response is the backend's (or the mock's) answer, data is
\* absent when it carries an error. The state setters act on the screen
\* shown only; pollForResult starts the interval in either case.
submitDecision_response(d, response, k, replaced) ==
    LET shown == Shown(d.v, "ProfileReveal", k)
        d1 == IF shown THEN [d EXCEPT !.v.submitting = FALSE] ELSE d IN
    IF response.error # "none" THEN d1
    ELSE IF response.waiting_for_partner
    THEN [d1 EXCEPT !.v.waitingForPartner = shown \/ d1.v.waitingForPartner,
                    !.v.intervals = d1.v.intervals \cup {k}]
    ELSE handleResult(d1, response.match_status, k, replaced)

\* ProfileRevealScreen.pollForResult of the k-th ProfileRevealScreen, the
\* interval's callback after the await
pollForResult_response(d, r, k, replaced) ==
    IF r.data /\ r.status # "revealed"
    THEN handleResult([d EXCEPT !.v.intervals = d.v.intervals \ {k}], r.status, k, replaced)
    ELSE d

\* ----------------------------------------------------------- WaitingScreen
\* WaitingScreen.checkExistingMatch of the k-th WaitingScreen after the
\* await, on the device d: with data, setCurrentMatch(data.id) and
\* navigation.replace to ProfileReveal for a revealed match, to BlindChat
\* otherwise. replaced tells whether navigation.replace took effect.
checkExistingMatch_response(d, r, k, replaced) ==
    LET d1 == [d EXCEPT !.st = setCurrentMatch(d.st, r.id)] IN
    IF ~r.data THEN d
    ELSE IF ~replaced THEN d1
    ELSE IF r.status = "revealed" THEN [d1 EXCEPT !.v = mountProfileReveal(d1.v)]
    ELSE mountBlindChat(d1)

\* WaitingScreen.findMatch of the k-th WaitingScreen after the await, on the
\* device d: with a match, setCurrentMatch, setStatus('in_chat') and
\* navigation.replace('BlindChat'); without, setSearching(false) (and
\* setError) on the screen shown.
findMatch_response(d, r, k, replaced) ==
    IF r.match
    THEN LET d1 == [d EXCEPT !.st = setStatus(setCurrentMatch(d.st, r.id), "in_chat")] IN
         IF replaced THEN mountBlindChat(d1) ELSE d1
    ELSE IF Shown(d.v, "Waiting", k) THEN [d EXCEPT !.v.searching = FALSE]
    ELSE d

\* -------------------------------------------------------- BlindChatScreen
\* mockApi.getChat: the same match and the same one message of the partner
\* every time
mockApi_getChat ==
    [data |-> TRUE, status |-> "chatting", current_compatibility |-> 650,
     messages |-> <<[id |-> 1, sender_id |-> partnerId, is_mine |-> FALSE]>>]

\* ApiService.getChat: the mock's answer, or the match and the history the
\* backend read, or { error } when the request failed (~ok).
api_getChat(snapshot, ok) ==
    IF USE_MOCK_API THEN mockApi_getChat
    ELSE IF ok THEN [data |-> TRUE, status |-> snapshot.status,
                     current_compatibility |-> snapshot.current_compatibility,
                     messages |-> snapshot.messages]
    ELSE [data |-> FALSE, status |-> "none", current_compatibility |-> 0,
          messages |-> <<>>]

\* BlindChatScreen.loadChat of the k-th BlindChatScreen after the await, on
\* the device d (c: the screen's state, meter: what the meter shows, v:
\* navigation): setLoading(false); with data setMessages, setCompatibility
\* and, for a match already revealed, navigation.replace('ProfileReveal').
\* The state setters act on the screen shown only; replaced tells whether
\* navigation.replace took effect.
loadChat(d, r, k, replaced) ==
    LET shown == Shown(d.v, "BlindChat", k)
        d1 == IF ~shown THEN d
              ELSE IF r.data
              THEN [d EXCEPT !.c.loading = FALSE, !.c.messages = r.messages,
                             !.meter = CompatibilityMeter(r.current_compatibility)]
              ELSE [d EXCEPT !.c.loading = FALSE] IN
    IF r.data /\ r.status = "revealed" /\ replaced
    THEN [d1 EXCEPT !.v = mountProfileReveal(d1.v)]
    ELSE d1

NewChatLog == [op |-> "none", msg |-> Msg(0, "none", FALSE), n |-> 0]

\* handleNewMessage that appends every message event
handleNewMessage_anySender(messages, newMessage, userId) ==
    Append(messages, [newMessage EXCEPT !.is_mine = FALSE])

\* BlindChatScreen.handleNewMessage: setMessages(prev => [...prev, {...newMessage, is_mine: false}])
\* when the sender is not userId, the store's userId as the screen read it
\* (useUserStore((state) => state.userId)).
handleNewMessage(messages, newMessage, userId) ==
    IF newMessage.sender_id # userId
    THEN Append(messages, [newMessage EXCEPT !.is_mine = FALSE])
    ELSE messages

\* BlindChatScreen.sendMessage up to the await: the optimistic update, its
\* sender_id the store's userId
sendMessage_optimistic(c, userId) ==
    [c EXCEPT !.sending = TRUE, !.temp = -(Len(c.messages) + 1),
              !.messages = Append(c.messages, Msg(-(Len(c.messages) + 1), userId, TRUE))]

\* BlindChatScreen.sendMessage after the await: data is the created message, or
\* absent (id 0) when the call failed
sendMessage_response(c, data) ==
    IF data.id # 0
    THEN [c EXCEPT !.sending = FALSE,
                   !.messages = [i \in 1..Len(c.messages) |->
                                   IF c.messages[i].id = c.temp
                                   THEN [data EXCEPT !.is_mine = TRUE]
                                   ELSE c.messages[i]]]
    ELSE [c EXCEPT !.sending = FALSE]

\* ------------------------------------------------------- Event Dispatcher
\* The dispatcher's state for one participant: whether a session is attached,
\* the buffer, what the participant's sessions were sent, what was dropped,
\* and the number of events dispatched so far (events are numbered in
\* dispatch order).
NewDispatcher ==
    [live |-> FALSE, buffer |-> <<>>, delivered |-> <<>>, dropped |-> {},
     dispatched |-> 0, last |-> "none"]

\* a buffer that refuses the newest event when full
enqueue_dropNewest(buffer, e) ==
    IF Len(buffer) >= BufferCapacity THEN buffer ELSE Append(buffer, e)

\* Bounded queue, oldest-dropped-first.
enqueue(buffer, e) ==
    IF Len(buffer) >= BufferCapacity THEN Append(Tail(buffer), e) ELSE Append(buffer, e)

\* The participant's next session attaches: the buffer is flushed in order.
attachSession(d) ==
    [d EXCEPT !.live = TRUE, !.delivered = d.delivered \o d.buffer,
              !.buffer = <<>>, !.last = "attach"]

\* The session goes away (connection lost, or closed).
detachSession(d) == [d EXCEPT !.live = FALSE, !.last = "detach"]

\* Route event e to the participant: to the live session, or to the buffer.
dispatch(d, e) ==
    IF d.live
    THEN [d EXCEPT !.delivered = Append(d.delivered, e),
                   !.dispatched = e, !.last = "dispatch"]
    ELSE [d EXCEPT !.buffer = enqueue(d.buffer, e),
                   !.dropped = d.dropped \cup
                       {d.buffer[i] : i \in {j \in 1..Len(d.buffer) :
                            \A k \in 1..Len(enqueue(d.buffer, e)) :
                                enqueue(d.buffer, e)[k] # d.buffer[j]}}
                       \cup (IF \E k \in 1..Len(enqueue(d.buffer, e)) :
                                    enqueue(d.buffer, e)[k] = e
                             THEN {} ELSE {e}),
                   !.dispatched = e, !.last = "dispatch"]

\* ------------------------------------------- BlindChatScreen life cycle
\* No BlindChatScreen has been mounted yet.
NoScreens == [mounted |-> 0, mounts |-> 0]

\* The callback fn created by the k-th mounted BlindChatScreen (useCallback).
Handler(k, fn) == [screen |-> k, fn |-> fn]

\* BlindChatScreen.setupWebSocket of the k-th screen, for its match m.
setupWebSocket(w, k, m) ==
    on(on(connect(w, m), "message", Handler(k, "handleNewMessage")),
       "compatibility_update", Handler(k, "handleCompatibilityUpdate"))

\* The cleanup returned by BlindChatScreen's effect.
effectCleanup(w) == disconnect(w)

\* ------------------------------------------------------------------ state

\* ------------------------------------------- per-match serialization (4.5)
\* An operation issued on the match.
Op(type, by, decision, score) == [type |-> type, by |-> by, decision |-> decision, score |-> score]

Ops ==
    {Op("submitDecision", p, d, -1) : p \in Participants, d \in Decision}
    \cup {Op("ingestScore", "scorer", "none", sc) : sc \in Scores}
    \cup {Op("postMessage", p, "none", -1) : p \in Participants}

\* The k-th operation received, applied to match state m.
ApplyOp(m, op, k) ==
    CASE op.type = "submitDecision" -> submitDecision(m, op.by, op.decision)
      [] op.type = "ingestScore" -> ingestScore(m, op.score, k)
      [] OTHER -> postMessage(m, op.by)

\* The match after the first k operations of ops, applied one at a time in
\* the order received.
RECURSIVE ApplyInOrder(_, _, _)
ApplyInOrder(m, ops, k) ==
    IF k = 0 THEN m ELSE ApplyOp(ApplyInOrder(m, ops, k - 1), ops[k], k).match

\* The match's worker: operations received, the number started, those being
\* applied (each on the state it read), the answers given, and whether an
\* operation was received while another was waiting or being applied.
NewSerial ==
    [match |-> NewMatch, received |-> <<>>, started |-> 0, applying |-> {},
     answers |-> <<>>, concurrent |-> FALSE]

\* a worker pool that starts an operation while another is being applied
mayStart_noMutex(applying) == TRUE

\* One worker (or a per-match mutex): an operation starts only when none is
\* being applied.
mayStart(applying) == applying = {}

NoCall ==
    [op |-> "none", by |-> "none", decision |-> "none", score |-> -1,
     response |-> Response("none", FALSE, "none", -1)]

Call(op, by, decision, score, response) ==
    [op |-> op, by |-> by, decision |-> decision, score |-> score, response |-> response]

InitWith(st) ==
    /\ USE_MOCK_API \in BOOLEAN
    /\ match = NewMatch
    /\ emitted = NoEvents
    /\ revealCount = [p \in Participants |-> 0]
    /\ revealedWrites = 0
    /\ iteration = 0
    /\ assigned = <<>>
    /\ submitted = NoDecisions
    /\ lastCall = NoCall
    /\ nCalls = 0
    /\ ws = NewWebSocketService
    /\ wsLog = NewWsLog
    /\ chat = NewBlindChatScreen
    /\ chatLog = NewChatLog
    /\ dispatcher = NewDispatcher
    /\ reveal = NewReveal
    /\ screens = NoScreens
    /\ meter = CompatibilityMeter(0)
    /\ store = st
    /\ serial = NewSerial

\* The match is created and A's device shows its first BlindChatScreen; the
\* user store is as created.
Init == InitWith(NewUserStore)

\* The same, with the user store as the screens that lead to BlindChatScreen
\* leave it: AuthScreen's awaited setAuth has completed, then WaitingScreen's
\* findMatch has called setCurrentMatch and setStatus, whose writes are under
\* way.
InitChat ==
    LET called == setAuth_start(NewUserStore, 1, "active")
        token == storageComplete(called, 1, TRUE)
        userId == storageComplete(token, 1, TRUE)
        signedIn == storageComplete(userId, 1, TRUE) IN
    InitWith(setStatus(setCurrentMatch(signedIn, "m1"), "in_chat"))

\* Number of events of one type in a sequence of events.
CountType(evs, type) == Cardinality({i \in 1..Len(evs) : evs[i].type = type})

\* Bookkeeping shared by every operation: r is the operation's outcome.
Apply(r, call) ==
    /\ nCalls' = nCalls + 1
    /\ match' = r.match
    /\ emitted' = r.events
    /\ lastCall' = call
    /\ iteration' = IF match.status = "continued" /\ r.match.status = "chatting"
                    THEN iteration + 1 ELSE iteration
    /\ revealCount' = [p \in Participants |->
                         (IF match.status = "continued" /\ r.match.status = "chatting"
                          THEN 0 ELSE revealCount[p]) + CountType(r.events[p], "reveal")]
    /\ revealedWrites' = IF r.match.revealedAt # {} /\ r.match.revealedAt # match.revealedAt
                         THEN revealedWrites + 1 ELSE revealedWrites
    /\ assigned' = IF r.response.sequence >= 0
                   THEN Append(assigned, r.response.sequence) ELSE assigned
    /\ UNCHANGED <<USE_MOCK_API, clientVars>>

\* The external scorer pushes a score to the match.
IngestScore(s) ==
    /\ nCalls < MaxCalls
    /\ LET r == ingestScore(match, s, nCalls + 1) IN
       /\ Apply(r, Call("ingestScore", "scorer", "none", s, r.response))
       /\ submitted' = IF match.status = "chatting" /\ r.match.status = "revealed"
                       THEN NoDecisions ELSE submitted

\* ApiService.sendMessage(matchId, content) called by participant p.
ApiSendMessage(p) ==
    /\ nCalls < MaxCalls
    /\ LET r == api_sendMessage(match, p) IN
       /\ Apply(r, Call("sendMessage", p, "none", -1, r.response))
       /\ UNCHANGED submitted

\* ApiService.submitDecision(matchId, decision) called by participant p.
ApiSubmitDecision(p, decision) ==
    /\ nCalls < MaxCalls
    /\ LET r == api_submitDecision(match, p, decision) IN
       /\ Apply(r, Call("submitDecision", p, decision, -1, r.response))
       /\ submitted' = IF match.status = "revealed" /\ submitted[p] = "none"
                       THEN [submitted EXCEPT ![p] = decision] ELSE submitted

\* ApiService.getRevealedProfile(matchId) called by participant p.
ApiGetRevealedProfile(p) ==
    /\ nCalls < MaxCalls
    /\ LET r == api_getRevealedProfile(match) IN
       /\ Apply(r, Call("getRevealedProfile", p, "none", -1, r.response))
       /\ UNCHANGED submitted

\* A new session of participant p attaches to the match (4.3: CONTINUED folds).
Attach(p) ==
    /\ nCalls < MaxCalls
    /\ LET r == [match |-> fold(match), events |-> NoEvents,
                 response |-> Response("none", FALSE, fold(match).status, -1)] IN
       /\ Apply(r, Call("attach", p, "none", -1, r.response))
       /\ UNCHANGED submitted

Next ==
    \/ \E s \in Scores : IngestScore(s)
    \/ \E p \in Participants : ApiSendMessage(p)
    \/ \E p \in Participants, d \in Decision : ApiSubmitDecision(p, d)
    \/ \E p \in Participants : Attach(p)
    \/ \E p \in Participants : ApiGetRevealedProfile(p)

Spec == Init /\ [][Next]_allVars

TypeOK ==
    /\ USE_MOCK_API \in BOOLEAN
    /\ match.status \in MatchStatus
    /\ match.currentScore \in Scores \cup {initial_compatibility}
    /\ match.decisions \in [Participants -> Decision \cup {"none"}]
    /\ match.nextSequence \in 0..MaxCalls
    /\ nCalls \in 0..MaxCalls

\* ------------------------------------------- WebSocketService operations
WsStep(w, log) ==
    /\ ws' = w
    /\ wsLog' = log
    /\ UNCHANGED <<vars, chatVars, dispVars, revealVars, screenVars, meterVars, storeVars, serialVars>>

\* A screen calls wsService.connect(matchId).
WsConnect(m) ==
    /\ Len(ws.sockets) < MaxSockets
    /\ WsStep(connect(ws, m),
              [wsLog EXCEPT !.frame = "none", !.invoked = <<>>, !.manual = FALSE])

\* A screen calls wsService.disconnect() (BlindChatScreen's effect cleanup).
WsDisconnect ==
    /\ ~wsLog.manual
    /\ WsStep(disconnect(ws),
              [wsLog EXCEPT !.frame = "none", !.invoked = <<>>, !.manual = TRUE])

\* The handshake of socket i succeeds.
SocketOpen(i) ==
    /\ i \in 1..Len(ws.sockets)
    /\ ws.sockets[i].readyState = "CONNECTING"
    /\ WsStep(onopen(ws, i),
              [wsLog EXCEPT !.frame = "none", !.invoked = <<>>])

\* The close event of socket i: the handshake failed, the connection was
\* lost, or a close() has completed.
SocketClose(i) ==
    /\ i \in 1..Len(ws.sockets)
    /\ ws.sockets[i].readyState # "CLOSED"
    /\ WsStep(onclose(ws, i),
              [wsLog EXCEPT !.frame = "none", !.invoked = <<>>])

\* A frame arrives on the open socket i.
SocketMessage(i, frame) ==
    /\ i \in 1..Len(ws.sockets)
    /\ ws.sockets[i].readyState = "OPEN"
    /\ LET r == onmessage(ws, frame) IN
       WsStep(ws,
              [wsLog EXCEPT !.frame = frame,
                            !.invoked = r.invoked,
                            !.escaped = wsLog.escaped \/ r.escaped,
                            !.malformed = wsLog.malformed \/ frame \in MalformedFrames])

\* A screen registers a handler.
WsOn(type, handler) ==
    /\ Len(ws.handlers["message"]) + Len(ws.handlers["compatibility_update"]) < MaxHandlers
    /\ WsStep(on(ws, type, handler),
              [wsLog EXCEPT !.frame = "none", !.invoked = <<>>])

\* A screen removes a handler.
WsOff(type, handler) ==
    /\ off(ws, type, handler) # ws
    /\ WsStep(off(ws, type, handler),
              [wsLog EXCEPT !.frame = "none", !.invoked = <<>>])

\* A screen calls wsService.send (sendTyping); events are numbered in call order.
WsSend ==
    /\ Len(wsLog.sendCalls) < MaxSends
    /\ LET event == Len(wsLog.sendCalls) + 1 IN
       WsStep(send(ws, event),
              [wsLog EXCEPT !.frame = "none", !.invoked = <<>>,
                            !.sendCalls = Append(wsLog.sendCalls, event)])

NextWS ==
    \/ \E m \in Matches : WsConnect(m)
    \/ WsDisconnect
    \/ \E i \in 1..MaxSockets : SocketOpen(i)
    \/ \E i \in 1..MaxSockets : SocketClose(i)
    \/ \E i \in 1..MaxSockets, f \in Frames : SocketMessage(i, f)
    \/ \E r \in Registrations : WsOn(r[1], r[2])
    \/ \E r \in Registrations : WsOff(r[1], r[2])
    \/ WsSend

\* The shipped build: USE_MOCK_API = true (the service does not read it).
InitWS == Init /\ USE_MOCK_API

SpecWS == InitWS /\ [][NextWS]_allVars

\* No timer is ever pending, so the setTimeout callback reconnectTimer has no
\* occasion to run and is no step of NextWS.
NoTimerEverPending == ws.timers = <<>>

\* ------------------------------------------------------- A's device steps
\* The device of participant A as the handlers see it: the chat screen (c),
\* navigation and the reveal screen (v), what the meter shows, the user store.
Device == [c |-> chat, v |-> reveal, meter |-> meter, st |-> store]

\* A step of A's device, possibly with a step of the match at the backend:
\* the bookkeeping of the other layers stays.
DeviceStep(m, d) ==
    /\ match' = m
    /\ chat' = d.c
    /\ reveal' = d.v
    /\ meter' = d.meter
    /\ store' = d.st
    /\ UNCHANGED <<USE_MOCK_API, emitted, revealCount, revealedWrites, iteration,
                   assigned, submitted, lastCall, nCalls, wsVars, dispVars,
                   screenVars, serialVars>>

\* ------------------------------------------------ BlindChatScreen steps
\* A step of the reveal protocol or of the backend: the match and A's device
\* change; the chat screen's step count stays.
RevealStep(m, d) ==
    /\ DeviceStep(m, d)
    /\ UNCHANGED chatLog

\* A step of the BlindChatScreen that is shown.
ChatStep(d, op, msg) ==
    /\ chatLog.n < MaxChatSteps
    /\ reveal.screen = "BlindChat"
    /\ chatLog' = [op |-> op, msg |-> msg, n |-> chatLog.n + 1]
    /\ DeviceStep(match, d)

\* navigation.replace called by the k-th screen of its kind takes effect
\* (replaced) when that screen is shown; when it is not, what it does is the
\* navigation library's, and it takes effect only while the device has
\* mounted fewer than MaxScreens screens.
StaleReplace(kind, k, replaced) ==
    /\ Shown(reveal, kind, k) => replaced
    /\ replaced /\ ~Shown(reveal, kind, k)
         => reveal.chatScreens + reveal.revealScreens + reveal.waitingScreens < MaxScreens

\* The backend stores a message of the partner; its event to A is on its way.
ChatPartnerPosts(id) ==
    /\ \A i \in 1..Len(chat.server) : chat.server[i].id # id
    /\ RevealStep(match, [Device EXCEPT
                             !.c.server = Append(chat.server, Msg(id, partnerId, FALSE))])

\* A message event is delivered to the screen's handler: the event of a
\* stored message of the partner, or the echo of a message of the
\* participant; the same event may be delivered again (redelivery after a
\* reconnect). With the mock, loadChat completes before any socket event can
\* be dispatched (its promise is already resolved).
ChatOnMessage(id, sender) ==
    /\ sender \in Users
    /\ USE_MOCK_API => ~chat.loading
    /\ sender = partnerId => \E i \in 1..Len(chat.server) : chat.server[i].id = id
    /\ ChatStep([Device EXCEPT
                    !.c.messages = handleNewMessage(chat.messages, Msg(id, sender, FALSE),
                                                  store.mem["userId"]),
                    !.c.duringLoad = IF chat.loading /\ sender = partnerId
                                     THEN chat.duringLoad \cup {id} ELSE chat.duringLoad],
                "message", Msg(id, sender, FALSE))

\* A getChat request reaches the backend, which reads the match and the
\* stored messages.
ChatLoadArrives ==
    /\ ~USE_MOCK_API
    /\ \E i \in 1..Len(chat.loads) :
          /\ ~chat.loads[i].taken
          /\ RevealStep(match,
                        [Device EXCEPT !.c.loads[i].taken = TRUE,
                                       !.c.loads[i].snapshot = Snapshot(chat.server, match)])

\* api.getChat completes, with the answer (ok) or with an error, and
\* loadChat resumes: on the screen shown, or after its screen was replaced,
\* when what its navigation.replace does is the navigation library's.
ChatLoadResponse(ok, replaced) ==
    \E i \in 1..Len(chat.loads) :
       LET load == chat.loads[i] IN
       /\ USE_MOCK_API \/ load.taken \/ ~ok
       /\ StaleReplace("BlindChat", load.screen, replaced)
       /\ RevealStep(match,
                     loadChat([Device EXCEPT !.c.loads = RemoveAt(chat.loads, i)],
                              api_getChat(load.snapshot, ok), load.screen, replaced))

\* The user sends a message (the input is rendered once loading is false).
ChatSend ==
    /\ ~chat.loading
    /\ ~chat.sending
    /\ ChatStep([Device EXCEPT !.c = sendMessage_optimistic(chat, store.mem["userId"])],
                "sendMessage", Msg(0, store.mem["userId"], TRUE))

\* api.sendMessage answers with the created message (id > 0), its sender_id
\* the participant's user_id, or fails (id 0).
ChatSendResponse(id) ==
    /\ chat.sending
    /\ ChatStep([Device EXCEPT !.c = sendMessage_response(chat, Msg(id, user_id, TRUE))],
                "sendMessage response", Msg(id, user_id, TRUE))

\* ------------------------------------------------- Event Dispatcher steps
DispStep(d) ==
    /\ dispatcher' = d
    /\ UNCHANGED <<vars, wsVars, chatVars, revealVars, screenVars, meterVars, storeVars, serialVars>>

Dispatch ==
    /\ dispatcher.dispatched < MaxEvents
    /\ DispStep(dispatch(dispatcher, dispatcher.dispatched + 1))

SessionAttach ==
    /\ ~dispatcher.live
    /\ DispStep(attachSession(dispatcher))

SessionDetach ==
    /\ dispatcher.live
    /\ DispStep(detachSession(dispatcher))

NextDispatcher ==
    \/ Dispatch
    \/ SessionAttach
    \/ SessionDetach

SpecDispatcher == Init /\ [][NextDispatcher]_allVars

\* --------------------------------------------- ProfileRevealScreen steps
\* A frame as sent to the socket opened by the k-th BlindChatScreen.
Frame(k, event) == [socket |-> k, event |-> event]

\* The frames of those events of evs whose type has handlers (emit does
\* nothing for a reveal frame), sent to the socket of the k-th screen.
FramesOf(k, evs) ==
    LET handled == SelectSeq(evs, LAMBDA e : e.type = "compatibility_update") IN
    [i \in 1..Len(handled) |-> Frame(k, handled[i])]

\* The scorer pushes a score. The backend sends the events to A's device
\* (sent) only while a BlindChatScreen is shown (the effect's cleanup closes
\* the socket), and then only if its socket is open at that moment.
RevealIngest(s, sent) ==
    /\ match.status = "chatting"
    /\ reveal.chatScreens + reveal.revealScreens + reveal.waitingScreens <= MaxScoredScreens
    /\ sent => reveal.screen = "BlindChat" /\ Len(reveal.frames) < MaxFrames
    /\ LET r == ingestScore(match, s, 1)
           v1 == IF r.match.status = "revealed" THEN newEncounter(reveal) ELSE reveal IN
       RevealStep(r.match,
                  [Device EXCEPT !.v =
                      IF sent
                      THEN [v1 EXCEPT !.frames =
                               v1.frames \o FramesOf(reveal.chatScreens, r.events["A"])]
                      ELSE v1])

\* onmessage for the oldest frame under way: emit runs the handlers of its
\* type, those of the chat screens; a frame sent to a socket that has been
\* closed since is lost.
DeliverFrame ==
    /\ reveal.frames # <<>>
    /\ LET f == Head(reveal.frames)
           d == [Device EXCEPT !.v.frames = Tail(reveal.frames)] IN
       RevealStep(match,
                  IF Shown(reveal, "BlindChat", f.socket)
                  THEN handleCompatibilityUpdate(d, f.event) ELSE d)

\* The oldest timeout was set by the screen that is shown.
TimeoutOfMountedScreen ==
    /\ reveal.timeouts # <<>>
    /\ Shown(reveal, "BlindChat", Head(reveal.timeouts))

\* The timeout set by the shown screen's handleCompatibilityUpdate fires:
\* navigation.replace('ProfileReveal').
MountProfileReveal ==
    /\ TimeoutOfMountedScreen
    /\ RevealStep(match,
                  [Device EXCEPT !.v = mountProfileReveal(
                                         [reveal EXCEPT !.timeouts = Tail(reveal.timeouts)])])

\* The timeout set by the handler of a screen no longer shown fires: what
\* navigation.replace of that screen's navigation object does is the
\* navigation library's (replaced: a new ProfileRevealScreen is put up).
StaleRevealTimeout(replaced) ==
    /\ reveal.timeouts # <<>>
    /\ ~TimeoutOfMountedScreen
    /\ StaleReplace("BlindChat", Head(reveal.timeouts), replaced)
    /\ LET v1 == [reveal EXCEPT !.timeouts = Tail(reveal.timeouts)] IN
       RevealStep(match, [Device EXCEPT !.v = IF replaced THEN mountProfileReveal(v1)
                                                ELSE v1])

\* The getRevealedProfile request of the screen shown reaches the backend,
\* which answers the profile or refuses.
ProfileLoadArrives ==
    /\ ~USE_MOCK_API
    /\ reveal.screen = "ProfileReveal"
    /\ reveal.loading /\ ~reveal.profileTaken
    /\ RevealStep(match,
                  [Device EXCEPT !.v.profileTaken = TRUE,
                                 !.v.profileData = getRevealedProfile(match).response.profile])

\* api.getRevealedProfile completes for the screen shown, with the answer
\* (ok) or with an error: loadProfile resumes.
ProfileLoadResponse(ok) ==
    /\ reveal.screen = "ProfileReveal"
    /\ reveal.loading
    /\ USE_MOCK_API \/ reveal.profileTaken \/ ~ok
    /\ RevealStep(match, [Device EXCEPT
                             !.v.loading = FALSE,
                             !.v.profile = loadProfile_data(match, reveal.profileData, ok)])

\* The timeout of the effect on [profile] fires: setRevealing(false).
RevealAnimationEnds ==
    /\ reveal.screen = "ProfileReveal"
    /\ reveal.profile /\ reveal.revealing
    /\ RevealStep(match, [Device EXCEPT !.v.revealing = FALSE])

\* A taps a decision button: rendered once loading and revealing are false
\* and while not waiting, disabled while submitting.
RevealSubmit(choice) ==
    /\ reveal.screen = "ProfileReveal"
    /\ ~reveal.loading /\ ~reveal.revealing
    /\ ~reveal.submitting /\ ~reveal.waitingForPartner
    /\ RevealStep(match,
                  [Device EXCEPT !.v.decision = choice, !.v.submitting = TRUE,
                                 !.v.submits = Append(reveal.submits,
                                                      SubmitRequest(reveal.revealScreens,
                                                                    choice))])

\* A submitDecision request reaches the backend, which applies it to the
\* match and answers.
RevealSubmitArrives ==
    /\ ~USE_MOCK_API
    /\ \E i \in 1..Len(reveal.submits) :
          LET req == reveal.submits[i]
              r == submitDecision(match, "A", req.decision) IN
          /\ ~req.taken
          /\ RevealStep(r.match, [Device EXCEPT !.v.submits[i].taken = TRUE,
                                                !.v.submits[i].answer = r.response])

\* api.submitDecision completes, with the backend's answer (ok) or with an
\* error (the request or its answer was lost, whether or not the backend
\* handled it); submitDecision resumes, on the screen shown or after its
\* screen was replaced.
RevealSubmitResponse(ok, replaced) ==
    \E i \in 1..Len(reveal.submits) :
       LET req == reveal.submits[i] IN
       /\ USE_MOCK_API \/ req.taken \/ ~ok
       /\ StaleReplace("ProfileReveal", req.screen, replaced)
       /\ RevealStep(match,
                     submitDecision_response(
                        [Device EXCEPT !.v.submits = RemoveAt(reveal.submits, i)],
                        submitDecision_answer(match, req, ok), req.screen, replaced))

\* The partner decides on their own device.
PartnerSubmit(d) ==
    /\ match.status = "revealed"
    /\ match.decisions["B"] = "none"
    /\ RevealStep(submitDecision(match, "B", d).match, Device)

\* The terminal event of a finalized match is sent to A's device: no handler
\* list exists for its type, so emit invokes nothing.
RevealPush ==
    /\ match.status \in {"continued", "ended"}
    /\ ~reveal.pushed
    /\ RevealStep(match,
                  [Device EXCEPT !.v.pushed = TRUE,
                                 !.v.learned = IF emit(ws, Terminal(match.status).type) # <<>>
                                               THEN match.status ELSE reveal.learned])

\* An interval started by pollForResult fires: api.getCurrentMatch is called.
PollTick ==
    /\ Len(reveal.polls) < MaxInFlight
    /\ \E k \in reveal.intervals :
          RevealStep(match, [Device EXCEPT
                                !.v.polls = Append(reveal.polls, CurrentMatchRequest(k))])

\* A getCurrentMatch request of an interval reaches the backend, which reads
\* the match.
PollArrives ==
    /\ ~USE_MOCK_API
    /\ \E i \in 1..Len(reveal.polls) :
          /\ ~reveal.polls[i].taken
          /\ RevealStep(match,
                        [Device EXCEPT
                            !.v.polls[i].taken = TRUE,
                            !.v.polls[i].answer = getCurrentMatch(match, reveal.matchId)])

\* api.getCurrentMatch completes, with what the backend read (ok) or with an
\* error, and the interval's callback resumes, on the screen shown or after
\* its screen was replaced.
PollResponse(ok, replaced) ==
    \E i \in 1..Len(reveal.polls) :
       LET req == reveal.polls[i] IN
       /\ USE_MOCK_API \/ req.taken \/ ~ok
       /\ StaleReplace("ProfileReveal", req.screen, replaced)
       /\ RevealStep(match,
                     pollForResult_response(
                        [Device EXCEPT !.v.polls = RemoveAt(reveal.polls, i)],
                        api_getCurrentMatch(req.answer, ok), req.screen, replaced))

\* The getCurrentMatch request of a WaitingScreen's checkExistingMatch
\* reaches the backend, which reads the match.
CheckArrives ==
    /\ ~USE_MOCK_API
    /\ \E i \in 1..Len(reveal.checks) :
          /\ ~reveal.checks[i].taken
          /\ RevealStep(match,
                        [Device EXCEPT
                            !.v.checks[i].taken = TRUE,
                            !.v.checks[i].answer = getCurrentMatch(match, reveal.matchId)])

\* api.getCurrentMatch completes and checkExistingMatch resumes, on the
\* screen shown or after its screen was replaced.
CheckResponse(ok, replaced) ==
    \E i \in 1..Len(reveal.checks) :
       LET req == reveal.checks[i] IN
       /\ USE_MOCK_API \/ req.taken \/ ~ok
       /\ StaleReplace("Waiting", req.screen, replaced)
       /\ RevealStep(match,
                     checkExistingMatch_response(
                        [Device EXCEPT !.v.checks = RemoveAt(reveal.checks, i)],
                        api_getCurrentMatch(req.answer, ok), req.screen, replaced))

\* A taps Find Match (rendered while searching is false): findMatch up to
\* the await.
FindTap ==
    /\ reveal.screen = "Waiting"
    /\ ~reveal.searching
    /\ RevealStep(match,
                  [Device EXCEPT !.v.searching = TRUE,
                                 !.v.finds = Append(reveal.finds,
                                                    FindRequest(reveal.waitingScreens))])

\* A findMatch request reaches the backend, which has a candidate for A
\* (found) or none. The model follows A into one further match, and only
\* once nothing of the earlier match is under way on A's device.
FindArrives(found) ==
    /\ ~USE_MOCK_API
    /\ found => /\ reveal.matchId = "m1"
                /\ reveal.submits = <<>> /\ reveal.polls = <<>> /\ reveal.intervals = {}
                /\ reveal.timeouts = <<>> /\ reveal.frames = <<>> /\ chat.loads = <<>>
                /\ reveal.checks = <<>>
    /\ \E i \in 1..Len(reveal.finds) :
          LET r == findMatch(match, found) IN
          /\ ~reveal.finds[i].taken
          /\ RevealStep(r.match,
                        [Device EXCEPT
                            !.v.finds[i].taken = TRUE,
                            !.v.finds[i].match = r.answer.match,
                            !.v.finds[i].id = r.answer.id,
                            !.v.matchId = IF r.answer.match THEN r.answer.id
                                          ELSE reveal.matchId])

\* api.findMatch completes and findMatch resumes, on the screen shown or
\* after its screen was replaced.
FindResponse(ok, replaced) ==
    \E i \in 1..Len(reveal.finds) :
       LET req == reveal.finds[i] IN
       /\ USE_MOCK_API \/ req.taken \/ ~ok
       /\ StaleReplace("Waiting", req.screen, replaced)
       /\ RevealStep(match,
                     findMatch_response(
                        [Device EXCEPT !.v.finds = RemoveAt(reveal.finds, i)],
                        api_findMatch(req, ok), req.screen, replaced))

\* A session attaches to a CONTINUED match (A's BlindChatScreen mounting, or
\* the partner's): the match folds back to CHATTING.
RevealAttach ==
    /\ match.status = "continued"
    /\ RevealStep(fold(match), Device)

\* A storage write started by the store completes or throws.
RevealStorageComplete(i, ok) ==
    /\ i \in 1..Len(store.pending)
    /\ RevealStep(match, [Device EXCEPT !.st = storageComplete(store, i, ok)])

NextReveal ==
    \/ \E s \in Scores, sent \in BOOLEAN : RevealIngest(s, sent)
    \/ DeliverFrame
    \/ MountProfileReveal
    \/ \E replaced \in BOOLEAN : StaleRevealTimeout(replaced)
    \/ ChatLoadArrives
    \/ \E ok, replaced \in BOOLEAN : ChatLoadResponse(ok, replaced)
    \/ ProfileLoadArrives
    \/ \E ok \in BOOLEAN : ProfileLoadResponse(ok)
    \/ RevealAnimationEnds
    \/ \E choice \in Decision : RevealSubmit(choice)
    \/ RevealSubmitArrives
    \/ \E ok, replaced \in BOOLEAN : RevealSubmitResponse(ok, replaced)
    \/ \E d \in Decision : PartnerSubmit(d)
    \/ RevealPush
    \/ PollTick
    \/ PollArrives
    \/ \E ok, replaced \in BOOLEAN : PollResponse(ok, replaced)
    \/ CheckArrives
    \/ \E ok, replaced \in BOOLEAN : CheckResponse(ok, replaced)
    \/ FindTap
    \/ \E found \in BOOLEAN : FindArrives(found)
    \/ \E ok, replaced \in BOOLEAN : FindResponse(ok, replaced)
    \/ RevealAttach
    \/ \E i \in 1..MaxPendingWrites, ok \in BOOLEAN : RevealStorageComplete(i, ok)

\* Frames arrive, timers fire and requests complete; a request that keeps
\* being made gets through to the server again and again. A user shown the
\* decision buttons decides; otherwise users and the scorer act when they
\* like.
SpecRevealFair ==
    /\ Init
    /\ [][NextReveal]_allVars
    /\ WF_allVars(DeliverFrame)
    /\ WF_allVars(MountProfileReveal)
    /\ WF_allVars(\E replaced \in BOOLEAN : StaleRevealTimeout(replaced))
    /\ WF_allVars(ChatLoadArrives)
    /\ WF_allVars(\E ok, replaced \in BOOLEAN : ChatLoadResponse(ok, replaced))
    /\ WF_allVars(ProfileLoadArrives)
    /\ WF_allVars(\E ok \in BOOLEAN : ProfileLoadResponse(ok))
    /\ WF_allVars(RevealAnimationEnds)
    /\ WF_allVars(PollTick)
    /\ SF_allVars(RevealSubmitArrives)
    /\ WF_allVars(\E ok, replaced \in BOOLEAN : RevealSubmitResponse(ok, replaced))
    /\ SF_allVars(PollArrives)
    /\ WF_allVars(\E ok, replaced \in BOOLEAN : PollResponse(ok, replaced))
    /\ SF_allVars(\E replaced \in BOOLEAN : PollResponse(TRUE, replaced))
    /\ WF_allVars(CheckArrives)
    /\ WF_allVars(\E ok, replaced \in BOOLEAN : CheckResponse(ok, replaced))
    /\ WF_allVars(\E found \in BOOLEAN : FindArrives(found))
    /\ WF_allVars(\E ok, replaced \in BOOLEAN : FindResponse(ok, replaced))
    /\ WF_allVars(RevealPush)
    /\ WF_allVars(\E choice \in Decision : RevealSubmit(choice))
    /\ WF_allVars(\E i \in 1..MaxPendingWrites, ok \in BOOLEAN :
                      RevealStorageComplete(i, ok))

\* The chat screen with the backend's messages, the scorer's updates and the
\* timeouts they set.
NextChat ==
    \/ \E id \in 1..MaxMsgIds : ChatPartnerPosts(id)
    \/ \E id \in 1..MaxMsgIds, sender \in Users : ChatOnMessage(id, sender)
    \/ ChatSend
    \/ \E id \in 0..MaxMsgIds : ChatSendResponse(id)
    \/ ChatLoadArrives
    \/ \E ok, replaced \in BOOLEAN : ChatLoadResponse(ok, replaced)
    \/ \E s \in Scores, sent \in BOOLEAN : RevealIngest(s, sent)
    \/ DeliverFrame
    \/ MountProfileReveal
    \/ \E replaced \in BOOLEAN : StaleRevealTimeout(replaced)

SpecChat == InitChat /\ [][NextChat]_allVars

\* --------------------------------------- BlindChatScreen life cycle steps
\* navigation puts a BlindChatScreen on screen: its effect runs setupWebSocket.
ScreenMount(m) ==
    /\ screens.mounted = 0
    /\ screens.mounts < MaxMounts
    /\ ws' = setupWebSocket(ws, screens.mounts + 1, m)
    /\ wsLog' = [wsLog EXCEPT !.frame = "none", !.invoked = <<>>, !.manual = FALSE]
    /\ screens' = [mounted |-> screens.mounts + 1, mounts |-> screens.mounts + 1]
    /\ UNCHANGED <<vars, chatVars, dispVars, revealVars, meterVars, storeVars, serialVars>>

\* The screen is replaced: the effect's cleanup runs.
ScreenUnmount ==
    /\ screens.mounted # 0
    /\ ws' = effectCleanup(ws)
    /\ wsLog' = [wsLog EXCEPT !.frame = "none", !.invoked = <<>>, !.manual = TRUE]
    /\ screens' = [screens EXCEPT !.mounted = 0]
    /\ UNCHANGED <<vars, chatVars, dispVars, revealVars, meterVars, storeVars, serialVars>>

NextScreens ==
    \/ \E m \in Matches : ScreenMount(m)
    \/ ScreenUnmount
    \/ \E i \in 1..MaxMounts : SocketOpen(i)
    \/ \E i \in 1..MaxMounts : SocketClose(i)
    \/ \E i \in 1..MaxMounts, f \in Frames : SocketMessage(i, f)

SpecScreens == InitWS /\ [][NextScreens]_allVars

\* ------------------------------------------------ CompatibilityMeter steps
\* BlindChatScreen renders <CompatibilityMeter score={compatibility} />.
MeterRender(s) ==
    /\ meter' = CompatibilityMeter(s)
    /\ UNCHANGED <<vars, wsVars, chatVars, dispVars, revealVars, screenVars, storeVars, serialVars>>

NextMeter == \E s \in 0..MaxMeterScore : MeterRender(s)

SpecMeter == Init /\ [][NextMeter]_allVars

\* ------------------------------------------------------ useUserStore steps
StoreStep(st) ==
    /\ store' = st
    /\ UNCHANGED <<vars, wsVars, chatVars, dispVars, revealVars, screenVars, meterVars,
                   serialVars>>

\* The store after one more action was called, st being what the call did.
\* Any action may be called while others are awaiting storage: none of them
\* is guarded. An action other than logout (alone FALSE) leaves a running
\* logout no longer alone.
Called(st, alone) ==
    [st EXCEPT !.calls = store.calls + 1, !.loggedOut = FALSE,
               !.duringLogout = st.duringLogout
                   \/ (~alone /\ \E a \in store.running : a.kind = "logout")]

\* AuthScreen: await setAuth(access_token, user_id, status).
StoreSetAuth(status) ==
    /\ store.calls < MaxStoreCalls
    /\ StoreStep(Called(setAuth_start(store, store.calls + 1, status), FALSE))

\* A screen calls setStatus(status).
StoreSetStatus(status) ==
    /\ store.calls < MaxStoreCalls
    /\ StoreStep(Called(setStatus(store, status), FALSE))

\* A screen calls setCurrentMatch(matchId), matchId possibly null.
StoreSetCurrentMatch(matchId) ==
    /\ store.calls < MaxStoreCalls
    /\ StoreStep(Called(setCurrentMatch(store, matchId), FALSE))

\* logout() is called.
StoreLogout ==
    /\ store.calls < MaxStoreCalls
    /\ StoreStep(Called(logout_start(store, store.calls + 1), TRUE))

\* loadFromStorage() is called.
StoreLoadFromStorage ==
    /\ store.calls < MaxStoreCalls
    /\ StoreStep(Called(loadFromStorage_start(store, store.calls + 1), FALSE))

\* A started storage call completes or throws. SecureStore calls started
\* independently complete in an order the program does not control.
StorageComplete(i, ok) ==
    /\ i \in 1..Len(store.pending)
    /\ StoreStep(storageComplete(store, i, ok))

NextStore ==
    \/ \E status \in UserStatus : StoreSetAuth(status)
    \/ \E status \in UserStatus : StoreSetStatus(status)
    \/ \E matchId \in Matches \cup {"null"} : StoreSetCurrentMatch(matchId)
    \/ StoreLogout
    \/ StoreLoadFromStorage
    \/ \E i \in 1..(MaxStoreCalls + 1), ok \in BOOLEAN : StorageComplete(i, ok)

SpecStore == Init /\ [][NextStore]_allVars

\* --------------------------------------------- per-match serialization steps
SerialStep(x) ==
    /\ serial' = x
    /\ UNCHANGED <<vars, wsVars, chatVars, dispVars, revealVars, screenVars, meterVars,
                   storeVars>>

\* An operation on the match is issued and joins the match's queue.
SerialReceive(op) ==
    /\ Len(serial.received) < MaxOps
    /\ SerialStep([serial EXCEPT !.received = Append(serial.received, op),
                                 !.answers = Append(serial.answers, "none"),
                                 !.concurrent = serial.concurrent
                                     \/ serial.started < Len(serial.received)
                                     \/ serial.applying # {}])

\* The next operation in the order received starts: it reads the match state.
SerialBegin ==
    /\ serial.started < Len(serial.received)
    /\ mayStart(serial.applying)
    /\ SerialStep([serial EXCEPT !.started = serial.started + 1,
                                 !.applying = serial.applying
                                     \cup {[k |-> serial.started + 1, read |-> serial.match]}])

\* An operation being applied finishes: it writes the match state and answers.
SerialCommit(k) ==
    /\ \E x \in serial.applying : x.k = k
    /\ LET w == CHOOSE x \in serial.applying : x.k = k
           r == ApplyOp(w.read, serial.received[w.k], w.k) IN
       SerialStep([serial EXCEPT !.match = r.match,
                                 !.applying = serial.applying \ {w},
                                 !.answers[w.k] = IF r.response.error # "none" THEN r.response.error
                                                  ELSE IF r.response.waiting_for_partner
                                                  THEN "waiting" ELSE r.response.match_status])

NextSerial ==
    \/ \E op \in Ops : SerialReceive(op)
    \/ SerialBegin
    \/ \E k \in 1..(MaxOps + 1) : SerialCommit(k)

SpecSerial == Init /\ [][NextSerial]_allVars

\* ------------------------------------------------------------------ claims
\* The step just taken is operation op.
Did(op) == nCalls' = nCalls + 1 /\ lastCall'.op = op

\* C1: for a REVEALED match and every order of the two participants' first
\* submitDecision calls: (continue, continue) ends CONTINUED; any combination
\* with a pass ends ENDED; a single continue while the partner has not
\* decided leaves REVEALED and answers waiting_for_partner = true.
C1_DecisionTruthTable ==
    [][(Did("submitDecision") /\ match.status = "revealed"
            /\ submitted[lastCall'.by] = "none")
        => LET d == lastCall'.decision
               o == submitted[Other(lastCall'.by)] IN
           /\ (d = "continue" /\ o = "continue") => match'.status = "continued"
           /\ (d = "pass" \/ o = "pass") => match'.status = "ended"
           /\ (d = "continue" /\ o = "none")
                 => /\ match'.status = "revealed"
                    /\ lastCall'.response.waiting_for_partner]_vars

\* C2: a participant's pass on a REVEALED match finalizes it to ENDED in that
\* same call, whatever the partner decided, and the response reports neither
\* waiting_for_partner = true nor match_status revealed.
C2_PassFinalizesAtOnce ==
    [][(Did("submitDecision") /\ match.status = "revealed"
            /\ lastCall'.decision = "pass" /\ submitted[lastCall'.by] = "none")
        => /\ match'.status = "ended"
           /\ ~lastCall'.response.waiting_for_partner
           /\ lastCall'.response.match_status # "revealed"]_vars

\* C3: in every lifecycle iteration each participant is sent exactly one
\* reveal event, by the first ingest of a score >= 0.80 while CHATTING; no
\* other operation, and no later ingest, emits a reveal.
C3_OneRevealPerIteration ==
    /\ [][nCalls' # nCalls
          => \A p \in Participants :
                CountType(emitted'[p], "reveal") =
                    IF lastCall'.op = "ingestScore" /\ lastCall'.score >= 800
                                                    /\ match.status = "chatting"
                    THEN 1 ELSE 0]_vars
    /\ [](\A p \in Participants :
            /\ revealCount[p] <= 1
            /\ revealCount[p] = 1 <=> match.status # "chatting")

\* C3 witness: a score >= 0.80 ingested after the reveal emitted nothing, and
\* the iteration's one reveal has been sent to both participants.
C3_Witness ==
    /\ lastCall.op = "ingestScore" /\ lastCall.score >= 800
    /\ match.status = "revealed"
    /\ emitted = NoEvents
    /\ \A p \in Participants : revealCount[p] = 1

\* C4: ingesting a score below 0.80 while CHATTING leaves the status CHATTING,
\* emits no reveal and changes no field of the match but currentScore.
C4_BelowThresholdKeepsChatting ==
    [][(Did("ingestScore") /\ lastCall'.score < 800 /\ match.status = "chatting")
        => /\ match' = [match EXCEPT !.currentScore = lastCall'.score]
           /\ \A p \in Participants :
                \A i \in 1..Len(emitted'[p]) :
                    /\ emitted'[p][i].type # "reveal"
                    /\ ~emitted'[p][i].reveal_triggered]_vars

\* C4 witness: the score just below the threshold has been ingested by a
\* CHATTING match.
C4_Witness ==
    /\ lastCall.op = "ingestScore" /\ lastCall.score = 799
    /\ match.status = "chatting" /\ match.currentScore = 799

\* C5 as stated: once the status has left CHATTING no operation brings it back.
C5_NeverBackToChatting ==
    [][match.status # "chatting" => match'.status # "chatting"]_vars

\* C5 amended: within a lifecycle iteration a match enters REVEALED at most
\* once, and the status returns to CHATTING only by the fold of a CONTINUED
\* match (the next postMessage or session attach), which starts the next
\* iteration; REVEALED and ENDED never lead back to CHATTING.
C5_BackToChattingOnlyByFold ==
    /\ [][(match.status # "chatting" /\ match'.status = "chatting")
          => /\ match.status = "continued"
             /\ lastCall'.op \in {"sendMessage", "attach"}
             /\ iteration' = iteration + 1]_vars
    /\ [][(match.status # "revealed" /\ match'.status = "revealed")
          => /\ match.status = "chatting"
             /\ \A p \in Participants : revealCount[p] = 0
             /\ iteration' = iteration]_vars

\* C5 witness: a match that was revealed and continued is CHATTING again.
C5_Witness ==
    /\ iteration = 1 /\ match.status = "chatting"
    /\ lastCall.op \in {"sendMessage", "attach"}

\* C6 as stated: revealedAt is set exactly when the status is not CHATTING,
\* and it is written at most once.
C6_RevealedAtWrittenOnce ==
    /\ match.revealedAt # {} <=> match.status # "chatting"
    /\ revealedWrites <= 1

\* C6 amended: revealedAt is set exactly when the status is not CHATTING, and
\* it is written at most once per lifecycle iteration (the fold clears it and
\* the next reveal writes it again).
C6_RevealedAtWrittenOncePerIteration ==
    /\ match.revealedAt # {} <=> match.status # "chatting"
    /\ revealedWrites = IF match.revealedAt # {} THEN iteration + 1 ELSE iteration

\* C6 witness: the second reveal of a match has written revealedAt again.
C6_Witness ==
    /\ iteration = 1 /\ match.status = "revealed"
    /\ match.revealedAt = {nCalls} /\ revealedWrites = 2

\* C7: a participant who already submitted a decision for this reveal
\* instance and submits again receives DuplicateDecisionError, and the match
\* is unchanged.
C7_SecondDecisionRejected ==
    [][(Did("submitDecision") /\ match.status = "revealed"
            /\ submitted[lastCall'.by] # "none")
        => /\ lastCall'.response.error = "DuplicateDecisionError"
           /\ match' = match]_vars

\* C8: submitDecision on a match that is not REVEALED fails with
\* InvalidStateError and leaves the match unchanged.
C8_DecisionOutsideRevealedRejected ==
    [][(Did("submitDecision") /\ match.status # "revealed")
        => /\ lastCall'.response.error = "InvalidStateError"
           /\ match' = match]_vars

\* C9: ingestScore on a match that is not CHATTING returns no error, emits no
\* event and leaves the match unchanged.
C9_IngestOutsideChattingIsNoOp ==
    [][(Did("ingestScore") /\ match.status # "chatting")
        => /\ lastCall'.response.error = "none"
           /\ emitted' = NoEvents
           /\ match' = match
           /\ revealCount' = revealCount]_vars

\* C9 witness: a score different from the current one was ingested by an ENDED
\* match and the current score is still the old one.
C9_Witness ==
    /\ lastCall.op = "ingestScore" /\ match.status = "ended"
    /\ lastCall.score # match.currentScore
    /\ emitted = NoEvents

\* C10: every sequence number assigned by a successful postMessage is
\* strictly greater than all those assigned before it on the match.
C10_SequenceStrictlyIncreasing ==
    \A i, j \in 1..Len(assigned) : i < j => assigned[i] < assigned[j]

\* C10 witness: messages were posted before and after the CONTINUED to
\* CHATTING fold, the last one by the postMessage that folded the match.
C10_Witness ==
    /\ Len(assigned) >= 2 /\ iteration = 1
    /\ lastCall.op = "sendMessage" /\ lastCall.response.error = "none"
    /\ lastCall.response.sequence = assigned[Len(assigned)]

\* C12: when the second participant submits continue after the first, the
\* match is CONTINUED; the next postMessage on a CONTINUED match succeeds,
\* takes the next sequence number and leaves the match CHATTING with both
\* decisions none.
C12_ContinuedThenPostMessageFolds ==
    /\ [][(Did("submitDecision") /\ match.status = "revealed"
              /\ lastCall'.decision = "continue"
              /\ match.decisions[lastCall'.by] = "none"
              /\ match.decisions[Other(lastCall'.by)] = "continue")
          => match'.status = "continued"]_vars
    /\ [][(Did("sendMessage") /\ match.status = "continued")
          => /\ lastCall'.response.error = "none"
             /\ lastCall'.response.sequence = match.nextSequence
             /\ match'.status = "chatting"
             /\ match'.decisions = NoDecisions]_vars

\* C12 witness: B continued after A, and the postMessage that followed was
\* accepted and left the match CHATTING with no decisions.
C12_Witness ==
    /\ lastCall.op = "sendMessage" /\ lastCall.response.error = "none"
    /\ lastCall.response.sequence >= 0
    /\ iteration = 1 /\ nCalls = 4
    /\ match.status = "chatting" /\ match.decisions = NoDecisions

\* The service's current socket is OPEN.
WsOpen == ws.socket # 0 /\ ws.sockets[ws.socket].readyState = "OPEN"

\* C13: when the established socket of a session closes without a manual
\* disconnect, reconnect attempt k is scheduled after 2 s * k (k = 1..5).
C13_UnexpectedCloseSchedulesReconnect ==
    [][\A i \in 1..Len(ws.sockets) :
          (/\ ws.socket = i /\ ~wsLog.manual
           /\ ws.sockets[i].readyState = "OPEN"
           /\ ws'.sockets[i].readyState = "CLOSED"
           /\ ws.reconnectAttempts < maxReconnectAttempts)
          => /\ ws'.reconnectAttempts = ws.reconnectAttempts + 1
             /\ ws'.timers = Append(ws.timers, reconnectDelay * ws'.reconnectAttempts)]_allVars

\* C14: when the connection is lost and every handshake fails, the session
\* has made exactly maxReconnectAttempts attempts by the time it has stopped
\* (its socket closed, no timer pending, no manual disconnect).
C14_GivesUpAfterMaxAttempts ==
    (/\ ws.socket # 0 /\ ws.sockets[ws.socket].readyState = "CLOSED"
     /\ ~wsLog.manual /\ ws.timers = <<>>)
    => ws.reconnectAttempts = maxReconnectAttempts

\* C15: after a manual disconnect() no reconnect attempt is started: no timer
\* is scheduled, the attempt counter does not move and no socket is created
\* until the next connect(); and when a socket opens no timer stays pending.
C15_NoReconnectAfterManualDisconnect ==
    /\ [][(wsLog.manual /\ wsLog'.manual)
          => /\ ws'.timers = <<>>
             /\ ws'.reconnectAttempts = ws.reconnectAttempts
             /\ Len(ws'.sockets) = Len(ws.sockets)
             /\ ws'.socket = 0]_allVars
    /\ [][(\E i \in 1..Len(ws.sockets) :
              ws.sockets[i].readyState # "OPEN" /\ ws'.sockets[i].readyState = "OPEN")
          => ws'.timers = <<>>]_allVars

\* C15 witness: an open socket was disconnected manually and its close
\* callback has run; nothing was scheduled.
C15_Witness ==
    /\ wsLog.manual /\ ws.socket = 0
    /\ Len(ws.sockets) >= 1
    /\ \A i \in 1..Len(ws.sockets) : ws.sockets[i].readyState = "CLOSED"
    /\ ws.wire # <<>>
    /\ ws.timers = <<>> /\ ws.reconnectAttempts = 0

\* C16: no event passed to send() is discarded; those passed while the
\* channel was not open are delivered once it is open.
C16_SendNeverDiscards ==
    WsOpen => \A k \in 1..Len(wsLog.sendCalls) :
                 \E j \in 1..Len(ws.wire) : ws.wire[j] = wsLog.sendCalls[k]

\* C19: a frame that is not a valid envelope invokes no handler, lets no
\* exception escape and changes nothing in the service (socket state,
\* handler registry, reconnect counter); a valid frame, also after a malformed
\* one, is dispatched to the handlers registered for its type.
C19_MalformedFrameDropped ==
    /\ [][wsLog'.frame \in MalformedFrames
          => /\ wsLog'.invoked = <<>>
             /\ ~wsLog'.escaped
             /\ ws' = ws]_allVars
    /\ [][wsLog'.frame \in WSMessageType
          => /\ wsLog'.invoked = ws.handlers[wsLog'.frame]
             /\ ~wsLog'.escaped
             /\ ws' = ws]_allVars

\* C19 witness: after a malformed frame, a message frame reached the
\* registered message handler on the socket that is still open.
C19_Witness ==
    /\ wsLog.malformed /\ ~wsLog.escaped
    /\ wsLog.frame = "message"
    /\ wsLog.invoked = <<"handleNewMessage">>
    /\ WsOpen

\* C17: delivering a message event again leaves the list as it was: no
\* message id appears twice in the message list.
C17_RedeliveryIsIdempotent ==
    \A i, j \in 1..Len(chat.messages) :
        (chat.messages[i].id = chat.messages[j].id /\ ~chat.messages[i].is_mine
            /\ ~chat.messages[j].is_mine) => i = j

\* C18: a message event adds an entry to the list exactly when its sender is
\* not the participant; entries of the participant's own messages come from
\* sendMessage only.
C18_OwnMessageEventNotListed ==
    /\ [][(chatLog'.n # chatLog.n /\ chatLog'.op = "message")
          => chat'.messages =
                IF chatLog'.msg.sender_id # store.mem["userId"]
                THEN Append(chat.messages, chatLog'.msg)
                ELSE chat.messages]_allVars
    /\ [](\A i \in 1..Len(chat.messages) :
            chat.messages[i].sender_id = store.mem["userId"] <=> chat.messages[i].is_mine)

\* C18 witness: the event of a message the participant sent was delivered to
\* the participant; the list still holds only the sent message and one from
\* the partner.
C18_Witness ==
    /\ chatLog.op = "message" /\ chatLog.msg.sender_id = store.mem["userId"]
    /\ store.mem["userId"] = user_id
    /\ Len(chat.messages) = 2
    /\ \E i \in 1..2 : chat.messages[i] = Msg(chatLog.msg.id, user_id, TRUE)
    /\ \E i \in 1..2 : chat.messages[i].sender_id = partnerId

SeqRange(q) == {q[i] : i \in 1..Len(q)}

Increasing(q) == \A i, j \in 1..Len(q) : i < j => q[i] < q[j]

\* C20: events for a participant without a live session are held in a buffer
\* of bounded size from which only the oldest is dropped; on attach the
\* retained events are delivered in dispatch order, ahead of every event
\* dispatched afterwards.
C20_BufferedThenFlushedInOrder ==
    /\ [](Len(dispatcher.buffer) <= BufferCapacity)
    /\ [](Increasing(dispatcher.delivered \o dispatcher.buffer))
    /\ [](\A x \in dispatcher.dropped, b \in SeqRange(dispatcher.buffer) : x < b)
    /\ [](SeqRange(dispatcher.delivered) \cup SeqRange(dispatcher.buffer)
            \cup dispatcher.dropped = 1..dispatcher.dispatched)
    /\ [](dispatcher.live => dispatcher.buffer = <<>>)
    /\ [][(~dispatcher.live /\ dispatcher'.dispatched # dispatcher.dispatched)
            => /\ dispatcher'.delivered = dispatcher.delivered
               /\ dispatcher'.buffer[Len(dispatcher'.buffer)] = dispatcher'.dispatched]_allVars
    /\ [][(~dispatcher.live /\ dispatcher'.live)
            => dispatcher'.delivered = dispatcher.delivered \o dispatcher.buffer]_allVars

\* C20 witness: the buffer overflowed while the participant was away, a
\* session attached and a later event followed the retained ones.
C20_Witness ==
    /\ dispatcher.live
    /\ dispatcher.dropped # {}
    /\ Len(dispatcher.delivered) > BufferCapacity
    /\ dispatcher.last = "dispatch"

\* C11: whenever the match is finalized to CONTINUED or ENDED, participant
\* A eventually learns a result, whether A is polling or not: A's device
\* does not go on showing the revealed profile of the finalized match for
\* ever without a result being learned.
C11_FinalizedLeadsToLearned ==
    (/\ match.status \in {"continued", "ended"}
     /\ reveal.screen = "ProfileReveal" /\ reveal.profile)
        ~> (\/ reveal.learned # "none"
            \/ ~(/\ match.status \in {"continued", "ended"}
                 /\ reveal.screen = "ProfileReveal" /\ reveal.profile))

\* C25: between method executions matchId is null, whatever connect and
\* disconnect calls were made; so no close callback ever schedules a timer or
\* counts an attempt.
C25_MatchIdNullBetweenCalls ==
    /\ ws.matchId = "null"
    /\ ws.timers = <<>>
    /\ ws.reconnectAttempts = 0

\* C25 witness: after two connect calls the current socket was lost without a
\* disconnect() and its close callback has run.
C25_Witness ==
    /\ Len(ws.sockets) >= 2
    /\ ws.socket # 0 /\ ws.sockets[ws.socket].readyState = "CLOSED"
    /\ ~wsLog.manual
    /\ ws.matchId = "null"

\* C26: connect(m) while the socket opened by an earlier connect(m) is OPEN
\* creates no socket and closes none.
C26_ConnectSameMatchWhileOpenIsNoOp ==
    [][(WsOpen /\ Len(ws'.sockets) > Len(ws.sockets)
            /\ ws'.sockets[Len(ws'.sockets)].matchId = ws.sockets[ws.socket].matchId)
        => FALSE]_allVars

\* C27: an inbound message event is handled by at most one 'message'
\* handler, that of the mounted screen; no handler of an unmounted screen
\* stays in the registry.
C27_OnlyMountedScreenHandles ==
    /\ wsLog.frame = "message"
        => /\ Len(wsLog.invoked) <= 1
           /\ \A i \in 1..Len(wsLog.invoked) : wsLog.invoked[i].screen = screens.mounted
    /\ \A t \in WSMessageType : \A i \in 1..Len(ws.handlers[t]) :
           ws.handlers[t][i].screen = screens.mounted

\* C24: when both participants chose continue, handleResult does not clear
\* the current match and does not send the client to Waiting: a run of
\* handleResult on the result continued, or on the chatting the continued
\* match has folded back to, leaves the store as it is and the client off
\* the Waiting screen.
C24_ContinueNeverEndsOnWaiting ==
    [][((\E k \in 1..Len(reveal.results) : reveal'.results[k] > reveal.results[k])
            /\ reveal'.learned \in {"continued", "chatting"})
        => /\ store' = store
           /\ reveal'.screen # "Waiting"]_allVars

\* C28: handleResult runs at most once for one showing of the reveal screen,
\* also with several getCurrentMatch requests in flight.
C28_HandleResultAtMostOnce ==
    \A k \in 1..Len(reveal.results) : reveal.results[k] <= 1

\* C29: once the initial load has completed, every message event of the
\* partner that arrived while it was in flight is in the list exactly once.
C29_EventDuringLoadListedOnce ==
    [][(chat.loading /\ ~chat'.loading)
        => \A id \in chat.duringLoad :
              Cardinality({i \in 1..Len(chat'.messages) :
                              chat'.messages[i].id = id /\ ~chat'.messages[i].is_mine}) = 1]_allVars

\* C21: a getRevealedProfile call answers with a profile only when the match
\* is not CHATTING.
C21_NoProfileWhileChatting ==
    (lastCall.op = "getRevealedProfile" /\ lastCall.response.profile)
        => match.status # "chatting"

\* C22: the meter shows its reveal-ready state (label 'Ready to reveal!',
\* green) exactly when the score is at least the reveal threshold that score
\* ingestion uses.
C22_MeterReadyIffThreshold ==
    (meter.label = "Ready to reveal!" /\ meter.color = "#10B981")
        <=> meter.score >= compatibilityReveal

\* No storage call is under way and no async store action is running.
StoreQuiescent == store.pending = <<>> /\ store.running = {}

\* C30: once logout() has resolved and the writes started before it have
\* completed, neither the store nor storage holds a token, userId, status or
\* currentMatchId (no store action is called while logout runs or after
\* it); and in every quiescent state the persisted status and
\* currentMatchId equal the in-memory ones.
C30_LogoutClearsAndStorageAgrees ==
    /\ (store.loggedOut /\ StoreQuiescent)
        => (store.mem = AllNull /\ store.disk = AllNull)
    /\ StoreQuiescent
        => /\ store.disk["status"] = store.mem["status"]
           /\ store.disk["currentMatchId"] = store.mem["currentMatchId"]

\* C23: operations on one match never interleave: whenever none is being
\* applied, the match is what applying the started operations one at a time
\* in the order received gives; and of two continue decisions received one
\* after the other, if the first is answered "waiting" the second is
\* answered "continued".
C23_SameMatchOperationsSerialized ==
    /\ serial.applying = {}
        => serial.match = ApplyInOrder(NewMatch, serial.received, serial.started)
    /\ \A i \in 1..(Len(serial.received) - 1) : \A p \in Participants :
          (/\ serial.received[i] = Op("submitDecision", p, "continue", -1)
           /\ serial.received[i + 1] = Op("submitDecision", Other(p), "continue", -1)
           /\ serial.answers[i] = "waiting")
          => serial.answers[i + 1] \in {"none", "continued"}

\* C23 witness: after the reveal both continue decisions were issued while an
\* earlier operation was still waiting or being applied; both are answered
\* and the match is CONTINUED.
C23_Witness ==
    /\ serial.concurrent
    /\ Len(serial.received) = 3
    /\ serial.received[2] = Op("submitDecision", "A", "continue", -1)
    /\ serial.received[3] = Op("submitDecision", "B", "continue", -1)
    /\ serial.answers[2] = "waiting" /\ serial.answers[3] = "continued"
    /\ serial.match.status = "continued"

====
